---- MODULE Spec2Model ----
(***************************************************************************)
(* Ingestion pipeline of the Boston open-data and local-transit services:  *)
(* the paginated ArcGIS fetch, the per-dataset refresh with its cache      *)
(* write, and the multi-tier transit resolvers.                            *)
(*                                                                         *)
(* Strings the code builds with template literals are modelled as records  *)
(* [w |-> <text kind>, n |-> <interpolated number>] so that two warnings    *)
(* are equal exactly when their texts are.                                 *)
(***************************************************************************)
EXTENDS Integers, Sequences, FiniteSets, TLC

(* ---------------------------------------------------------------- bounds *)
MaxPageSize == 2
MaxPagesBound == 3
MaxRecordsBound == 3
MaxUpstream == 5
MaxRefreshes == 2
MaxTierRecords == 2
MaxProperties == 2
MaxEncoded == 4
MaxAlerts == 3
MaxLineVehicles == 3
MaxCalls == 3
MaxChunkSize == 2
MaxShapeRows == 2
MaxSmokeCount == 1

\* Paging numbers of DATASETS, scaled down: pageSize 500 and maxPages 8 in the
\* source, with maxRecords = 4000 = pageSize * maxPages.
ScaledPageSize == 1
ScaledMaxPages == 2
ScaledUpstream == 2

VARIABLES
    config,     \* ArcGisDatasetConfig of the running fetch
    f,          \* locals of fetchArcGisFeatureCollection and its position
    up,         \* the upstream: features held, largest count it reports, which
                \* features read as fire incidents, whether it answered truthfully
    net,        \* requests issued by the running refresh, in order
    r,          \* the running refreshBostonDataset call
    cache,      \* persistent cache: key -> stored data
    now,        \* clock read by new Date()
    t,          \* the running refreshLocalTransit call
    br,         \* its three concurrent branches (the resolvers)
    others,     \* refreshBostonDataset calls in flight besides the running one
    join,       \* the refreshAllBostonDatasets call and its Promise.all
    caller,     \* the caller: its timeout on a refresh, its last cache read
    fn,         \* a function of the pipeline called on its own: input, result
    mb          \* the military-bases service: lastResult, pendingFetch, its calls

vars == <<config, f, up, net, r, cache, now, t, br, others, join, caller, fn, mb>>

transitVars == <<t, br>>
callVars == <<others, join, caller, fn, mb>>
refreshVars == <<r, cache, now, transitVars, callVars>>
bostonVars == <<config, f, up, net, r>>

(* --------------------------------------------------------------- helpers *)
Min(a, b) == IF a <= b THEN a ELSE b
Max(a, b) == IF a >= b THEN a ELSE b

\* Array.prototype.slice(0, n)
SliceFront(s, n) == SubSeq(s, 1, Min(n, Len(s)))

Contains(s, x) == \E i \in 1..Len(s) : s[i] = x
CountOf(s, x) == Cardinality({i \in 1..Len(s) : s[i] = x})

(* -------------------------------------------------------- warning strings *)
WarnNoCount == [w |-> "Could not retrieve total count", n |-> 0]
WarnBounded(maxRecords) == [w |-> "Record fetch bounded at N records", n |-> maxRecords]
WarnPageCap(maxPages) == [w |-> "Pagination capped at N pages", n |-> maxPages]
WarnTransferLimit == [w |-> "ArcGIS reported exceededTransferLimit", n |-> 0]

(* ------------------------------------------------- paginated ArcGIS fetch *)
\* Math.max(0, maxRecords - allFeatures.length)
Remaining(cfg, len) == Max(0, cfg.maxRecords - len)

AcceptedNoSlice(cfg, len, features) == features

\* page.features.slice(0, remaining); with maxRecords absent the cap is
\* Number.POSITIVE_INFINITY and the slice keeps the whole page.
Accepted(cfg, len, features) ==
    IF cfg.hasMaxRecords THEN SliceFront(features, Remaining(cfg, len)) ELSE features

RecordCapReachedStrict(cfg, len) == cfg.hasMaxRecords /\ len > cfg.maxRecords

\* allFeatures.length >= maxRecords
RecordCapReached(cfg, len) == cfg.hasMaxRecords /\ len >= cfg.maxRecords

KnownTotalReachedNever(cnt, len) == FALSE

\* count != null && allFeatures.length >= count
KnownTotalReached(cnt, len) == cnt.known /\ len >= cnt.n

\* The features the upstream returns for a page at `offset` holding n features.
PageFeatures(offset, n) == [i \in 1..n |-> offset + i]

\* What an upstream holding `total` features returns for (offset, limit).
HonestLen(total, offset, limit) == Min(limit, Max(0, total - offset))

ConfigSpace ==
    [pageSize : 1..MaxPageSize,
     maxPages : 1..MaxPagesBound,
     hasMaxRecords : BOOLEAN,
     maxRecords : 1..MaxRecordsBound]

\* A config without maxRecords carries one canonical value in the unused field.
Configs == {c \in ConfigSpace : c.hasMaxRecords \/ c.maxRecords = 1}

FetchStart ==
    [pc |-> "start",
     count |-> [known |-> FALSE, n |-> 0],
     offset |-> 0,
     allFeatures |-> <<>>,
     hasMore |-> TRUE,
     pageGuard |-> 0,
     sawExceededTransferLimit |-> FALSE,
     warnings |-> <<>>]

\* No fetch is running: its locals do not exist.
FetchIdle == [FetchStart EXCEPT !.pc = "idle"]

PageRequestAtZero(offset, limit) ==
    [kind |-> "page", offset |-> 0, limit |-> limit, status |-> "pending",
     exceeded |-> FALSE]

\* A request as the network sees it, with the status of its response and, for
\* a page, the exceededTransferLimit of the payload.
CountRequest ==
    [kind |-> "count", offset |-> 0, limit |-> 0, status |-> "pending", exceeded |-> FALSE]
PageRequest(offset, limit) ==
    [kind |-> "page", offset |-> offset, limit |-> limit, status |-> "pending",
     exceeded |-> FALSE]

Answered(log, status) == [log EXCEPT ![Len(log)].status = status]
AnsweredPage(log, exceeded) ==
    [log EXCEPT ![Len(log)].status = "ok", ![Len(log)].exceeded = exceeded]

\* fetchArcGisCount is called: the probe request goes out.
IssueCount ==
    /\ f.pc = "start"
    /\ f' = [f EXCEPT !.pc = "count"]
    /\ net' = Append(net, CountRequest)
    /\ UNCHANGED <<config, up>>
    /\ UNCHANGED refreshVars

\* The probe answers: a number, or null (non-2xx, or no numeric count).
CountResult(known, n) ==
    [f EXCEPT !.pc = "loop",
              !.count = [known |-> known, n |-> IF known THEN n ELSE 0],
              !.warnings = IF known THEN @ ELSE Append(@, WarnNoCount)]

CountResponse ==
    /\ f.pc = "count"
    /\ \E status \in {"ok", "no_count", "http_error"}, n \in 0..up.limit :
        /\ status # "ok" => n = 0
        /\ f' = CountResult(status = "ok", n)
        /\ up' = [up EXCEPT !.honest = @ /\ (status = "ok" => n = up.total)]
        /\ net' = Answered(net, status)
    /\ UNCHANGED config
    /\ UNCHANGED refreshVars

\* fetch() rejects or response.json() throws inside fetchArcGisCount, which has
\* no handler: the rejection leaves fetchArcGisFeatureCollection.
CountThrows ==
    /\ f.pc = "count"
    /\ \E status \in {"transport_error", "unreadable_body"} :
        net' = Answered(net, status)
    /\ f' = [f EXCEPT !.pc = "thrown"]
    /\ UNCHANGED <<config, up>>
    /\ UNCHANGED refreshVars

LoopConditionNoGuard == f.hasMore

\* while (hasMore && pageGuard < maxPages)
LoopCondition == f.hasMore /\ f.pageGuard < config.maxPages

\* Loop head: pageGuard += 1 and the page request goes out.
IssuePage ==
    /\ f.pc = "loop"
    /\ LoopCondition
    /\ f' = [f EXCEPT !.pc = "page", !.pageGuard = @ + 1]
    /\ net' = Append(net, PageRequest(f.offset, config.pageSize))
    /\ UNCHANGED <<config, up>>
    /\ UNCHANGED refreshVars

\* The loop body after a page arrived.
AfterPage(cfg, s, features, exceeded) ==
    LET featureCount == Len(features)
        all == s.allFeatures \o Accepted(cfg, Len(s.allFeatures), features)
        saw == s.sawExceededTransferLimit \/ exceeded
        s1 == [s EXCEPT !.pc = "loop", !.allFeatures = all, !.sawExceededTransferLimit = saw]
    IN  IF RecordCapReached(cfg, Len(all))
        THEN [s1 EXCEPT !.warnings = Append(@, WarnBounded(cfg.maxRecords)), !.hasMore = FALSE]
        ELSE IF featureCount < cfg.pageSize /\ ~exceeded
        THEN [s1 EXCEPT !.hasMore = FALSE]
        ELSE IF KnownTotalReached(s.count, Len(all))
        THEN [s1 EXCEPT !.hasMore = FALSE]
        ELSE [s1 EXCEPT !.offset = @ + cfg.pageSize]

PageResponseOk ==
    /\ f.pc = "page"
    /\ \E n \in 0..config.pageSize, exceeded \in up.flags :
        /\ f' = AfterPage(config, f, PageFeatures(f.offset, n), exceeded)
        /\ up' = [up EXCEPT !.honest =
                    @ /\ ~exceeded /\ n = HonestLen(up.total, f.offset, config.pageSize)]
        /\ net' = AnsweredPage(net, exceeded)
    /\ UNCHANGED config
    /\ UNCHANGED refreshVars

PageFailureSwallowed(s) == [s EXCEPT !.pc = "loop", !.hasMore = FALSE]

\* throw new Error(`ArcGIS request failed (...)`): the fetch ends here.
PageFailure(s) == [s EXCEPT !.pc = "thrown"]

\* fetchArcGisPage throws on a non-2xx response (and fetch() itself rejects on
\* a transport error); nothing catches it in fetchArcGisFeatureCollection.
PageResponseFailed ==
    /\ f.pc = "page"
    /\ \E status \in {"http_error", "transport_error"} :
        net' = Answered(net, status)
    /\ f' = PageFailure(f)
    /\ UNCHANGED <<config, up>>
    /\ UNCHANGED refreshVars

FinalWarningsNoTransfer(cfg, s) ==
    IF s.pageGuard >= cfg.maxPages
    THEN Append(s.warnings, WarnPageCap(cfg.maxPages)) ELSE s.warnings

\* After the loop: the two trailing warnings, then return.
FinalWarnings(cfg, s) ==
    LET w1 == IF s.pageGuard >= cfg.maxPages
              THEN Append(s.warnings, WarnPageCap(cfg.maxPages)) ELSE s.warnings
    IN  IF s.sawExceededTransferLimit THEN Append(w1, WarnTransferLimit) ELSE w1

LoopExit ==
    /\ f.pc = "loop"
    /\ ~LoopCondition
    /\ f' = [f EXCEPT !.pc = "returned", !.warnings = FinalWarnings(config, f)]
    /\ UNCHANGED <<config, up, net>>
    /\ UNCHANGED refreshVars

FetchStep ==
    \/ IssueCount
    \/ CountResponse
    \/ CountThrows
    \/ IssuePage
    \/ PageResponseOk
    \/ PageResponseFailed
    \/ LoopExit


(* ------------------------------------------------------ dataset refresh *)
BostonDatasetIds ==
    {"crimeIncidents", "fireIncidents", "policeDistricts",
     "fireHydrants", "fireDepartments", "communityCenters"}

WarnHydrantStub == [w |-> "Stable public hydrant endpoint not resolved yet", n |-> 0]
WarnDefaultStub == [w |-> "Dataset configured as stub.", n |-> 0]
WarnNoFireMatched == [w |-> "No fire incidents matched heuristic filters", n |-> 0]
NoWarning == [w |-> "", n |-> 0]

IncidentConfig(tag) ==
    [mode |-> "incident", datasetTag |-> tag, warning |-> NoWarning,
     pageSize |-> ScaledPageSize, maxPages |-> ScaledMaxPages,
     hasMaxRecords |-> TRUE, maxRecords |-> ScaledPageSize * ScaledMaxPages]

\* maxPages and maxRecords are absent: no record cap, and config.maxPages ?? 100,
\* a guard above the incidents' one (scaled likewise).
DefaultMaxPages == ScaledMaxPages + 1

LayerConfig ==
    [mode |-> "layer", datasetTag |-> "", warning |-> NoWarning,
     pageSize |-> ScaledPageSize, maxPages |-> DefaultMaxPages,
     hasMaxRecords |-> FALSE, maxRecords |-> 1]

StubConfig ==
    [mode |-> "stub", datasetTag |-> "", warning |-> WarnHydrantStub,
     pageSize |-> ScaledPageSize, maxPages |-> DefaultMaxPages,
     hasMaxRecords |-> FALSE, maxRecords |-> 1]

DATASETS(id) ==
    CASE id = "crimeIncidents" -> IncidentConfig("crime")
      [] id = "fireIncidents" -> IncidentConfig("fire")
      [] id = "fireHydrants" -> StubConfig
      [] OTHER -> LayerConfig

\* The paging part of a dataset config, as fetchArcGisFeatureCollection reads it.
PagingOf(c) ==
    [pageSize |-> c.pageSize, maxPages |-> c.maxPages,
     hasMaxRecords |-> c.hasMaxRecords, maxRecords |-> c.maxRecords]

CACHE_PREFIX == "boston-open-data"
cacheKey(datasetId) == <<CACHE_PREFIX, datasetId>>
CACHE_KEY == <<"local-transit", "status">>

CacheKeys == {cacheKey(id) : id \in BostonDatasetIds} \cup {CACHE_KEY}
NoPayload == [absent |-> TRUE]
EmptyCache == [k \in CacheKeys |-> NoPayload]

\* persistent-cache: set(key, data) replaces the entry of that key.
setPersistentCache(c, key, data) == [c EXCEPT ![key] = data]

NoTransit == [pc |-> "detached"]
NoCalls == <<>>
NoJoin == [pc |-> "idle"]
NoRead == [op |-> "none"]
NoFunction == [pc |-> "idle"]
\* The military-bases module is not loaded.
NoBases == [loaded |-> FALSE]
\* No refresh abandoned (refreshes are told apart by their fetchedAt, 1 and
\* up), nothing read yet.
IdleCaller == [abandoned |-> 0, atTimeout |-> <<>>, read |-> NoRead]
NoBranches == <<>>

\* r.before is the cache as the refresh found it; r.payload what it returned.
NoRefresh == [pc |-> "detached"]
IdleRefresh == [pc |-> "idle"]

\* Feature k of the upstream reads as a fire incident to isLikelyFireIncident.
IsFireLike(k) == up.fireEvery > 0 /\ k % up.fireEvery = 0

(* ------------------------------------------------------ schema normalizer *)
\* JavaScript values of a property mapping.  A string is a sequence of
\* tokens: " " is a blank, a digit token is a decimal digit, any other token is
\* a piece of text without blanks.
Str(s) == [t |-> "string", s |-> s]
Num(n) == [t |-> "number", fin |-> TRUE, n |-> n]
NaN == [t |-> "number", fin |-> FALSE, n |-> 0]
NullV == [t |-> "null"]
Undefined == [t |-> "undefined"]
IsStr(v) == v.t = "string"
IsNum(v) == v.t = "number"
IsNullish(v) == v.t \in {"null", "undefined"}

Digits == <<"0", "1", "2", "3", "4", "5", "6", "7", "8", "9">>
IsDigit(c) == \E i \in 1..10 : Digits[i] = c
DigitValue(c) == (CHOOSE i \in 1..10 : Digits[i] = c) - 1

\* String.prototype.trim
RECURSIVE trimStart(_)
trimStart(s) == IF s # <<>> /\ Head(s) = " " THEN trimStart(Tail(s)) ELSE s
RECURSIVE trimEnd(_)
trimEnd(s) == IF s # <<>> /\ s[Len(s)] = " " THEN trimEnd(SubSeq(s, 1, Len(s) - 1)) ELSE s
trim(s) == trimEnd(trimStart(s))

\* String(n) of a finite integer; "NaN" otherwise.
RECURSIVE NatToString(_)
NatToString(n) ==
    IF n < 10 THEN <<Digits[n + 1]>> ELSE NatToString(n \div 10) \o <<Digits[(n % 10) + 1]>>
String(v) ==
    IF ~v.fin THEN <<"NaN">>
    ELSE IF v.n < 0 THEN <<"-">> \o NatToString(-v.n) ELSE NatToString(v.n)

RECURSIVE DigitsToNat(_)
DigitsToNat(s) ==
    IF s = <<>> THEN 0 ELSE 10 * DigitsToNat(SubSeq(s, 1, Len(s) - 1)) + DigitValue(s[Len(s)])
AllDigits(s) == s # <<>> /\ \A i \in 1..Len(s) : IsDigit(s[i])

\* Number(value): blanks are trimmed, the empty string is 0, null is 0,
\* anything that is not a numeral is NaN.
StringToNumber(s) ==
    LET x == trim(s)
    IN  IF x = <<>> THEN Num(0)
        ELSE IF AllDigits(x) THEN Num(DigitsToNat(x))
        ELSE IF Head(x) = "-" /\ AllDigits(Tail(x)) THEN Num(-DigitsToNat(Tail(x)))
        ELSE NaN
Number(v) ==
    CASE IsNum(v) -> v
      [] IsStr(v) -> StringToNumber(v.s)
      [] v.t = "null" -> Num(0)
      [] OTHER -> NaN
IsFiniteNumber(v) == IsNum(v) /\ v.fin

\* String.prototype.toLowerCase on property names.
LowerCased ==
    [INCIDENT_NUMBER |-> "incident_number",
     INCIDENTNUM |-> "incidentnum",
     CASE_NUMBER |-> "case_number",
     OBJECTID |-> "objectid",
     OCCURRED_ON_DATE |-> "occurred_on_date",
     ObjectId |-> "objectid",
     OFFENSE_CODE |-> "offense_code",
     INCIDENT_TYPE |-> "incident_type",
     NATURE_CODE |-> "nature_code",
     LATITUDE |-> "latitude",
     Latitude |-> "latitude",
     LONGITUDE |-> "longitude",
     Longitude |-> "longitude",
     OFFENSE_DESCRIPTION |-> "offense_description",
     NATURE |-> "nature",
     INCIDENT_TYPE_DESCRIPTION |-> "incident_type_description",
     DEPARTMENT |-> "department",
     AGENCY |-> "agency",
     Street |-> "street"]
toLowerCase(k) == IF k \in DOMAIN LowerCased THEN LowerCased[k] ELSE k

\* A property mapping is the sequence of its entries [k, v] in key order
\* (Object.keys), keys distinct.  properties[key]:
Get(properties, key) ==
    IF \E i \in 1..Len(properties) : properties[i].k = key
    THEN properties[CHOOSE i \in 1..Len(properties) : properties[i].k = key].v
    ELSE Undefined

\* Object.keys(properties).find((k) => k.toLowerCase() === key.toLowerCase()):
\* position of the first such key, 0 for undefined.
FindKeyIgnoringCase(properties, key) ==
    LET First(hits) == IF hits = {} THEN 0 ELSE CHOOSE i \in hits : \A j \in hits : i <= j
        Find(lowered) ==
            First({i \in 1..Len(properties) : toLowerCase(properties[i].k) = lowered})
    IN  Find(toLowerCase(key))

RECURSIVE pickString(_, _)
pickString(properties, candidates) ==
    IF candidates = <<>> THEN <<>>
    ELSE LET rest == pickString(properties, Tail(candidates))
             \* the loop body for one key: direct is properties[key], lower the
             \* position of the key found ignoring case
             Body(direct, lower) ==
                 IF IsStr(direct) /\ trim(direct.s) # <<>> THEN trim(direct.s)
                 ELSE IF lower = 0 THEN rest
                 ELSE LET value == properties[lower].v
                      IN  IF IsStr(value) /\ trim(value.s) # <<>> THEN trim(value.s)
                          ELSE IF IsNum(value) THEN String(value)
                          ELSE rest
         IN  Body(Get(properties, Head(candidates)),
                  FindKeyIgnoringCase(properties, Head(candidates)))

\* new Date(value).toISOString(): the timestamp text of an epoch number; a
\* string parses when it is a numeral-free date token of the table below.
IsoString(ms) == <<"iso">> \o String(Num(ms))
DateTexts == {"2024-01-02"}
DateParse(s) ==
    IF Len(s) = 1 /\ s[1] \in DateTexts THEN Num(1704153600) ELSE NaN

RECURSIVE pickDateString(_, _)
pickDateString(properties, candidates) ==
    IF candidates = <<>> THEN NullV
    ELSE LET rest == pickDateString(properties, Tail(candidates))
             \* properties[key] ?? properties[the key found ignoring case]
             Direct(exact, lower) ==
                 IF ~IsNullish(exact) THEN exact
                 ELSE IF lower = 0 THEN Undefined ELSE properties[lower].v
             Body(direct) ==
                 IF IsNullish(direct) THEN rest
                 ELSE IF IsNum(direct) /\ direct.fin THEN Str(IsoString(direct.n))
                 ELSE IF IsStr(direct) /\ trim(direct.s) # <<>>
                 THEN (IF DateParse(direct.s).fin THEN Str(IsoString(DateParse(direct.s).n))
                       ELSE direct)
                 ELSE rest
         IN  Body(Direct(Get(properties, Head(candidates)),
                         FindKeyIgnoringCase(properties, Head(candidates))))

\* A feature: geometry is null, a Point with its coordinates array, or a
\* geometry of another type; properties is a mapping or null.
NoGeometry == [type |-> "null", coordinates |-> <<>>]
Point(coordinates) == [type |-> "Point", coordinates |-> coordinates]
Polygon == [type |-> "Polygon", coordinates |-> <<>>]
NullCoordinates == [lat |-> NullV, lon |-> NullV]

GeoFeature(geometry, properties) ==
    [geometry |-> geometry, nullProperties |-> FALSE, properties |-> properties]
\* feature.properties ?? {}
PropertiesOf(feature) == IF feature.nullProperties THEN <<>> ELSE feature.properties

getFeatureCoordinates(feature) ==
    LET geometry == feature.geometry
        props == PropertiesOf(feature)
        \* Number.isFinite(n) ? n : null
        FiniteOrNull(n) == IF IsFiniteNumber(n) THEN n ELSE NullV
    IN  IF geometry.type = "null" THEN NullCoordinates
        ELSE IF /\ geometry.type = "Point" /\ Len(geometry.coordinates) >= 2
                /\ IsFiniteNumber(Number(geometry.coordinates[2]))
                /\ IsFiniteNumber(Number(geometry.coordinates[1]))
        THEN [lat |-> Number(geometry.coordinates[2]), lon |-> Number(geometry.coordinates[1])]
        ELSE [lat |-> FiniteOrNull(StringToNumber(
                         pickString(props, <<"latitude", "lat", "y", "LATITUDE">>))),
              lon |-> FiniteOrNull(StringToNumber(
                         pickString(props, <<"longitude", "lon", "lng", "x", "LONGITUDE">>)))]

FireKeywords == {"fire", "alarm", "smoke", "burn", "hazmat", "rescue"}

\* /(fire|alarm|smoke|burn|hazmat|rescue)/.test(haystack): a text token of the
\* haystack is one of the keywords.
isLikelyFireIncident(properties) ==
    LET haystack ==
            pickString(properties, <<"offense_description", "OFFENSE_DESCRIPTION">>) \o <<" ">>
            \o pickString(properties, <<"nature", "NATURE">>) \o <<" ">>
            \o pickString(properties, <<"incident_type_description", "INCIDENT_TYPE_DESCRIPTION">>)
            \o <<" ">> \o pickString(properties, <<"incident_type", "INCIDENT_TYPE">>) \o <<" ">>
            \o pickString(properties, <<"department", "DEPARTMENT">>) \o <<" ">>
            \o pickString(properties, <<"agency", "AGENCY">>)
        Test(text) == \E i \in 1..Len(text) : text[i] \in FireKeywords
    IN  Test(haystack)

OrElseNoFallback(a, b) == a

\* a || b on strings
OrElse(a, b) == IF a # <<>> THEN a ELSE b

CompositeIdNoTag(datasetTag, address, date, typeCode) ==
    address \o <<"-">> \o (IF IsNullish(date) THEN <<"no-date">> ELSE date.s) \o <<"-">>
        \o OrElse(typeCode, <<"na">>)

\* `${datasetTag}-${address}-${date ?? 'no-date'}-${typeCode || 'na'}`
CompositeId(datasetTag, address, date, typeCode) ==
    <<datasetTag, "-">> \o address \o <<"-">>
        \o (IF IsNullish(date) THEN <<"no-date">> ELSE date.s) \o <<"-">>
        \o OrElse(typeCode, <<"na">>)

normalizeIncidentFeature(feature, datasetTag) ==
    LET properties == PropertiesOf(feature)
        \* the returned object, from the constants picked above it
        Incident(coords, date, incidentType, description, incidentNumber, typeCode,
                 dateTimeReported, district, address, objectId) ==
            [id |-> OrElse(incidentNumber, OrElse(objectId,
                        CompositeId(datasetTag, address, date, typeCode))),
             dataset |-> datasetTag,
             incidentNumber |-> OrElse(incidentNumber, OrElse(objectId, <<"N/A">>)),
             typeCode |-> OrElse(typeCode, <<"N/A">>),
             sourceCategory |-> OrElse(incidentType, <<"Uncategorized">>),
             date |-> date,
             dateTimeReported |-> dateTimeReported,
             description |-> OrElse(description,
                                OrElse(incidentType, <<"No", " ", "description">>)),
             district |-> district,
             incidentType |-> OrElse(incidentType, <<"Unknown">>),
             address |-> address,
             lat |-> coords.lat,
             lon |-> coords.lon,
             raw |-> properties]
    IN  Incident(
            getFeatureCoordinates(feature),
            pickDateString(properties, <<"occurred_on_date", "incident_date",
                "dispatch_date", "fromdate", "open_dt", "date", "offense_date">>),
            pickString(properties, <<"incident_type_description", "incident_type",
                "offense_code_group", "offense_code_name", "nature", "service">>),
            pickString(properties, <<"offense_description", "offense_code_name",
                "description", "nature", "comments", "incident_type_description">>),
            pickString(properties, <<"incident_number", "INCIDENT_NUMBER",
                "incidentnum", "INCIDENTNUM", "case_number", "CASE_NUMBER",
                "objectid", "OBJECTID">>),
            pickString(properties, <<"offense_code", "OFFENSE_CODE", "incident_type",
                "INCIDENT_TYPE", "nature_code", "NATURE_CODE">>),
            pickDateString(properties, <<"occurred_on_date", "incident_date",
                "dispatch_date", "report_date", "open_dt", "date">>),
            OrElse(pickString(properties, <<"district", "police_district",
                "reporting_area", "precinct">>), <<"Unknown">>),
            OrElse(pickString(properties, <<"street", "streetname", "location",
                "address">>), <<"Unknown", " ", "location">>),
            pickString(properties, <<"objectid", "OBJECTID", "incident_number",
                "INCIDENT_NUMBER">>))

\* Feature k of the upstream as GeoJSON: a point, its object id, and a nature
\* that names a fire or not.
Entry(k, v) == [k |-> k, v |-> v]
Feature(k, fireLike) ==
    GeoFeature(Point(<<Num(k), Num(k)>>),
               <<Entry("OBJECTID", Num(k)),
                 Entry("nature", Str(IF fireLike THEN <<"fire">> ELSE <<"theft">>))>>)

\* normalizeIncidentFeature is pure: its values on the features an upstream can
\* serve, for both incident tags.
NormalizedFeatures ==
    [k \in 1..MaxUpstream, fireLike \in BOOLEAN, tag \in {"crime", "fire"} |->
        normalizeIncidentFeature(Feature(k, fireLike), tag)]

normalizeIncidentFeaturesUnfiltered(features, tag) ==
    [i \in 1..Len(features) |-> NormalizedFeatures[features[i], IsFireLike(features[i]), tag]]

normalizeIncidentFeatures(features, tag) ==
    LET keep(incident) == isLikelyFireIncident(incident.raw)
        Filter(normalized) == IF tag = "fire" THEN SelectSeq(normalized, keep) ELSE normalized
    IN  Filter([i \in 1..Len(features) |->
                    NormalizedFeatures[features[i], IsFireLike(features[i]), tag]])

Provenance(datasetId, fetchedAt, recordCount, warnings) ==
    [datasetId |-> datasetId, fetchedAt |-> fetchedAt,
     recordCount |-> recordCount, warnings |-> warnings]

StubPayloadNoWarning(datasetId, cfg, fetchedAt) ==
    [layer |-> <<>>, provenance |-> Provenance(datasetId, fetchedAt, 0, <<>>)]

StubPayload(datasetId, cfg, fetchedAt) ==
    [layer |-> <<>>,
     provenance |-> Provenance(datasetId, fetchedAt, 0,
                      IF cfg.warning # NoWarning THEN <<cfg.warning>> ELSE <<WarnDefaultStub>>)]

IncidentPayloadCountsFetched(datasetId, cfg, fetchedAt, features, warnings) ==
    [incidents |-> normalizeIncidentFeatures(features, cfg.datasetTag),
     provenance |-> Provenance(datasetId, fetchedAt, Len(features), warnings)]

IncidentPayload(datasetId, cfg, fetchedAt, features, warnings) ==
    LET Payload(incidents) ==
            [incidents |-> incidents,
             provenance |-> Provenance(datasetId, fetchedAt, Len(incidents),
                              IF cfg.datasetTag = "fire" /\ Len(incidents) = 0
                              THEN Append(warnings, WarnNoFireMatched) ELSE warnings)]
    IN  Payload(normalizeIncidentFeatures(features, cfg.datasetTag))

LayerPayloadKeepProvenance(datasetId, fetchedAt, features, warnings) ==
    LET old == cache[cacheKey(datasetId)]
    IN  [layer |-> features,
         provenance |-> IF old # NoPayload THEN old.provenance
                        ELSE Provenance(datasetId, fetchedAt, Len(features), warnings)]

LayerPayload(datasetId, fetchedAt, features, warnings) ==
    [layer |-> features,
     provenance |-> Provenance(datasetId, fetchedAt, Len(features), warnings)]

\* The upstream of a dataset refresh: it never sets exceededTransferLimit.
ScaledUp ==
    [total |-> ScaledUpstream, limit |-> ScaledUpstream, flags |-> {FALSE},
     fireEvery |-> 0, honest |-> TRUE]

\* The datasets the caller asks for: both incident feeds, a layer and the stub.
RefreshInputs == {"crimeIncidents", "fireIncidents", "policeDistricts", "fireHydrants"}

CanRefresh == r.pc \in {"idle", "assembled", "failed"} /\ now < MaxRefreshes

\* refreshBostonDataset of a stub dataset: payload, cache write, return.
RefreshStub(id) ==
    /\ CanRefresh
    /\ DATASETS(id).mode = "stub"
    /\ LET payload == StubPayload(id, DATASETS(id), now + 1)
       IN  /\ cache' = setPersistentCache(cache, cacheKey(id), payload)
           /\ r' = [pc |-> "assembled", datasetId |-> id, fetchedAt |-> now + 1,
                    before |-> cache, payload |-> payload]
    /\ now' = now + 1
    /\ net' = <<>>
    /\ UNCHANGED <<config, f, up, transitVars, callVars>>

\* refreshBostonDataset of a paged dataset, up to the call of the fetch.
RefreshStart(id) ==
    /\ CanRefresh
    /\ DATASETS(id).mode # "stub"
    /\ r' = [pc |-> "fetching", datasetId |-> id, fetchedAt |-> now + 1,
             before |-> cache, payload |-> NoPayload]
    /\ now' = now + 1
    /\ config' = PagingOf(DATASETS(id))
    /\ f' = FetchStart
    /\ net' = <<>>
    /\ \E fe \in (IF id = "fireIncidents" THEN 0..2 ELSE {0}) :
          up' = [ScaledUp EXCEPT !.fireEvery = fe]
    /\ UNCHANGED <<cache, transitVars, callVars>>

\* The fetch returned: normalize, assemble, write the cache, return.
Assemble ==
    /\ r.pc = "fetching"
    /\ f.pc = "returned"
    /\ LET cfg == DATASETS(r.datasetId)
           Write(payload) ==
               /\ cache' = setPersistentCache(cache, cacheKey(r.datasetId), payload)
               /\ r' = [r EXCEPT !.pc = "assembled", !.payload = payload]
       IN  Write(IF cfg.mode = "incident"
                 THEN IncidentPayload(r.datasetId, cfg, r.fetchedAt, f.allFeatures, f.warnings)
                 ELSE LayerPayload(r.datasetId, r.fetchedAt, f.allFeatures, f.warnings))
    /\ f' = FetchIdle
    /\ UNCHANGED <<config, up, net, now, transitVars, callVars>>

\* The fetch threw: refreshBostonDataset has no handler, the caller gets it.
Propagate ==
    /\ r.pc = "fetching"
    /\ f.pc = "thrown"
    /\ r' = [r EXCEPT !.pc = "failed"]
    /\ f' = FetchIdle
    /\ UNCHANGED <<config, up, net, cache, now, transitVars, callVars>>

Init ==
    /\ config = PagingOf(LayerConfig)
    /\ f = FetchIdle
    /\ up = ScaledUp
    /\ net = <<>>
    /\ r = IdleRefresh
    /\ cache = EmptyCache
    /\ now = 0
    /\ t = NoTransit
    /\ br = NoBranches
    /\ others = NoCalls
    /\ join = NoJoin
    /\ caller = IdleCaller
    /\ fn = NoFunction
    /\ mb = NoBases

Next ==
    \/ \E id \in RefreshInputs : RefreshStub(id)
    \/ \E id \in RefreshInputs : RefreshStart(id)
    \/ FetchStep
    \/ Assemble
    \/ Propagate

Spec == Init /\ [][Next]_vars

(* ----------------------------------- SpecConcurrent: two calls in flight *)
\* A refreshBostonDataset call: its config, the locals of its fetch, the
\* upstream it talks to, its requests, its own position.
Call == [config |-> config, f |-> f, up |-> up, net |-> net, r |-> r]

\* The running call waits at an await and the caller, which did not await it,
\* is free to call again.
Yield ==
    /\ r.pc = "fetching"
    /\ others = NoCalls
    /\ others' = <<Call>>
    /\ r' = IdleRefresh
    /\ f' = FetchIdle
    /\ net' = <<>>
    /\ UNCHANGED <<config, up, cache, now, transitVars, join, caller, fn, mb>>

\* The event loop runs the continuation of another call in flight.
Resume(i) ==
    /\ i \in 1..Len(others)
    /\ others[i].r.pc = "fetching"
    /\ config' = others[i].config
    /\ f' = others[i].f
    /\ up' = others[i].up
    /\ net' = others[i].net
    /\ r' = others[i].r
    /\ others' = [others EXCEPT ![i] = Call]
    /\ UNCHANGED <<cache, now, transitVars, join, caller, fn, mb>>

\* The caller's timeout fires on the running refresh: the caller stops waiting
\* for it; the call itself takes no signal and is not told.
Timeout ==
    /\ r.pc = "fetching"
    /\ caller.abandoned = 0
    /\ caller' = [caller EXCEPT !.abandoned = r.fetchedAt, !.atTimeout = cache]
    /\ UNCHANGED <<bostonVars, cache, now, transitVars, others, join, fn, mb>>

\* The caller makes two calls, for any two of these datasets.
ConcurrentInputs == {"crimeIncidents", "policeDistricts", "fireHydrants"}

InitConcurrent ==
    /\ config = PagingOf(LayerConfig)
    /\ f = FetchIdle
    /\ up = ScaledUp
    /\ net = <<>>
    /\ r = IdleRefresh
    /\ cache = EmptyCache
    /\ now = MaxRefreshes - 2
    /\ t = NoTransit
    /\ br = NoBranches
    /\ others = NoCalls
    /\ join = NoJoin
    /\ caller = IdleCaller
    /\ fn = NoFunction
    /\ mb = NoBases

NextConcurrent ==
    \/ \E id \in ConcurrentInputs : RefreshStub(id)
    \/ \E id \in ConcurrentInputs : RefreshStart(id)
    \/ FetchStep
    \/ Assemble
    \/ Propagate
    \/ Yield
    \/ \E i \in 1..Len(others) : Resume(i)

SpecConcurrent == InitConcurrent /\ [][NextConcurrent]_vars

(* ----------------------------------------- SpecAll: refreshAllBostonDatasets *)
\* Object.keys(DATASETS), in source order, cut down to one dataset of each
\* mode: an incident feed, a layer and the stub.
AllIds == <<"crimeIncidents", "policeDistricts", "fireHydrants">>

\* refreshBostonDataset(id) up to its first await: a paged dataset is about to
\* fetch, a stub has built its payload and handed it to the cache.
StartedCall(id, at, fireEvery) ==
    IF DATASETS(id).mode = "stub"
    THEN [config |-> PagingOf(DATASETS(id)), f |-> FetchIdle, up |-> ScaledUp, net |-> <<>>,
          r |-> [pc |-> "assembled", datasetId |-> id, fetchedAt |-> at,
                 before |-> cache, payload |-> StubPayload(id, DATASETS(id), at)]]
    ELSE [config |-> PagingOf(DATASETS(id)), f |-> FetchStart,
          up |-> [ScaledUp EXCEPT !.fireEvery = IF id = "fireIncidents" THEN fireEvery ELSE 0],
          net |-> <<>>,
          r |-> [pc |-> "fetching", datasetId |-> id, fetchedAt |-> at,
                 before |-> cache, payload |-> NoPayload]]

RECURSIVE WriteStubs(_, _)
WriteStubs(c, calls) ==
    IF calls = <<>> THEN c
    ELSE LET call == Head(calls)
             c1 == IF call.r.pc = "assembled"
                   THEN setPersistentCache(c, cacheKey(call.r.datasetId), call.r.payload)
                   ELSE c
         IN  WriteStubs(c1, Tail(calls))

\* refreshAllBostonDatasets up to `await Promise.all(...)`: ids.map has started
\* one refreshBostonDataset per id.
RefreshAllStart ==
    /\ join.pc = "idle"
    /\ r.pc = "idle"
    /\ others = NoCalls
    /\ \E fe \in 0..2 :
        LET calls == [i \in 1..Len(AllIds) |-> StartedCall(AllIds[i], now + 1, fe)]
        IN  /\ config' = calls[1].config
            /\ f' = calls[1].f
            /\ up' = calls[1].up
            /\ net' = calls[1].net
            /\ r' = calls[1].r
            /\ others' = Tail(calls)
            /\ cache' = WriteStubs(cache, calls)
    /\ now' = now + 1
    /\ join' = [pc |-> "pending", result |-> <<>>]
    /\ UNCHANGED <<transitVars, caller, fn, mb>>

AllCalls == <<Call>> \o others

\* Promise.all rejects as soon as one of its promises does.
AllReject ==
    /\ join.pc = "pending"
    /\ \E i \in 1..Len(AllCalls) : AllCalls[i].r.pc = "failed"
    /\ join' = [join EXCEPT !.pc = "rejected"]
    /\ UNCHANGED <<bostonVars, cache, now, transitVars, others, caller, fn, mb>>

\* Every refresh returned: Object.fromEntries(entries) is the result.
AllResolve ==
    /\ join.pc = "pending"
    /\ \A i \in 1..Len(AllCalls) : AllCalls[i].r.pc = "assembled"
    /\ join' = [pc |-> "resolved",
                result |-> [i \in 1..Len(AllCalls) |->
                              <<AllCalls[i].r.datasetId, AllCalls[i].r.payload>>]]
    /\ UNCHANGED <<bostonVars, cache, now, transitVars, others, caller, fn, mb>>

NextAll ==
    \/ RefreshAllStart
    \/ FetchStep
    \/ Assemble
    \/ Propagate
    \/ \E i \in 1..Len(others) : Resume(i)
    \/ AllReject
    \/ AllResolve

SpecAll == Init /\ [][NextAll]_vars

(* --------------------------------- SpecTimeout: a caller with a timeout *)
NextTimeout ==
    \/ \E id \in ConcurrentInputs : RefreshStub(id)
    \/ \E id \in ConcurrentInputs : RefreshStart(id)
    \/ FetchStep
    \/ Assemble
    \/ Propagate
    \/ Timeout

SpecTimeout == InitConcurrent /\ [][NextTimeout]_vars

(* ------------------------------------------------- SpecFetch: one fetch *)
InitFetch ==
    /\ config \in Configs
    /\ f = FetchStart
    /\ up \in [total : 0..MaxUpstream, limit : {MaxUpstream}, flags : {BOOLEAN},
               fireEvery : {0}, honest : {TRUE}]
    /\ net = <<>>
    /\ r = NoRefresh
    /\ cache = EmptyCache
    /\ now = 0
    /\ t = NoTransit
    /\ br = NoBranches
    /\ others = NoCalls
    /\ join = NoJoin
    /\ caller = IdleCaller
    /\ fn = NoFunction
    /\ mb = NoBases

NextFetch == FetchStep

SpecFetch == InitFetch /\ [][NextFetch]_vars

\* Every request is answered and the event loop runs the continuation.
SpecFetchLive == SpecFetch /\ WF_vars(NextFetch)

(* ------------------------------------------------ local transit refresh *)
\* Every transit warning is [w |-> text, notes |-> the parts joined into it].
Branches == {"vehicles", "mbtaAlerts", "amtrak"}
MbtaBranches == {"vehicles", "mbtaAlerts"}

MbtaTiers == <<"filtered", "fallback", "gtfs">>
AMTRAK_DEFAULT_FEEDS == <<"service-alerts/rss.xml", "service-alerts-and-notices/rss.xml">>

\* Array.from(new Set([...(OVERRIDE ? [OVERRIDE] : []), ...AMTRAK_DEFAULT_FEEDS]))
AMTRAK_FEED_CANDIDATES(override) ==
    IF override THEN <<"override">> \o AMTRAK_DEFAULT_FEEDS ELSE AMTRAK_DEFAULT_FEEDS

TiersOf(b, override) ==
    IF b \in MbtaBranches THEN MbtaTiers ELSE AMTRAK_FEED_CANDIDATES(override)

\* The upstream's data: vehicle i of a tier's response, after normalization,
\* the Boston-radius filter and the sort; vehicles 1 and 2 run on one route.
RouteOf(i) == IF i <= 2 THEN "Red" ELSE "Blue"
Vehicle(i, tier) == [id |-> i, routeId |-> RouteOf(i), from |-> tier]
Vehicles(tier, n) == [i \in 1..n |-> Vehicle(i, tier)]

\* updatedAt: null, or the ISO text of an instant (its epoch milliseconds).
NoStamp == [null |-> TRUE, ms |-> 0]
Stamp(ms) == [null |-> FALSE, ms |-> ms]

\* Alert i of a response; the first Amtrak item has no date.
MbtaAlert(i, tier) == [id |-> i, source |-> "mbta", from |-> tier, updatedAt |-> Stamp(i)]
AmtrakAlert(i, feed) ==
    [id |-> i, source |-> "amtrak", from |-> feed,
     updatedAt |-> IF i = 1 THEN NoStamp ELSE Stamp(i - 1)]

TierRecords(b, tier, n) ==
    [i \in 1..n |-> CASE b = "vehicles" -> Vehicle(i, tier)
                      [] b = "mbtaAlerts" -> MbtaAlert(i, tier)
                      [] OTHER -> AmtrakAlert(i, tier)]

Request(tier) == [tier |-> tier, status |-> "pending", n |-> 0]
\* One attempt note: which resolver, which tier, and what happened to it.
Note(b, tier, what) == [branch |-> b, tier |-> tier, what |-> what]

LastAnswered(log, status, n) == [log EXCEPT ![Len(log)].status = status, ![Len(log)].n = n]

\* A resolver up to its first await: the request of its first tier is out.
BranchStartSpeculative(tiers) ==
    [tiers |-> tiers, log |-> <<Request(tiers[1]), Request(tiers[2])>>, notes |-> <<>>,
     done |-> FALSE, value |-> <<>>, sourceUrl |-> <<>>]

BranchStart(tiers) ==
    [tiers |-> tiers, log |-> <<Request(tiers[1])>>, notes |-> <<>>,
     done |-> FALSE, value |-> <<>>, sourceUrl |-> <<>>]

ReturnedContinue(s, value, url) ==
    IF Len(s.log) < Len(s.tiers)
    THEN [s EXCEPT !.log = Append(@, Request(s.tiers[Len(s.log) + 1]))]
    ELSE [s EXCEPT !.done = TRUE, !.value = value, !.sourceUrl = url]

\* `return` inside the tier loop: the resolver settles with this value.
Returned(s, value, url) == [s EXCEPT !.done = TRUE, !.value = value, !.sourceUrl = url]

\* The tier failed or came back empty: note it, then the next tier's request
\* goes out, or after the last tier the resolver settles empty.
NextTier(s, note) ==
    LET s1 == [s EXCEPT !.notes = Append(@, note)]
    IN  IF Len(s.log) < Len(s.tiers)
        THEN [s1 EXCEPT !.log = Append(@, Request(s.tiers[Len(s.log) + 1]))]
        ELSE [s1 EXCEPT !.done = TRUE, !.value = <<>>, !.sourceUrl = s.tiers]

AttemptsWarningTruncated(notes) == [w |-> "attempts", notes |-> SliceFront(notes, 2)]

\* warnings.push(attemptNotes.join(' | '))
AttemptsWarning(notes) == [w |-> "attempts", notes |-> notes]

\* warnings.push(`Amtrak alerts unavailable (${failures.slice(0, 2).join(' | ')}).`)
AmtrakUnavailable(failures) ==
    [w |-> "Amtrak alerts unavailable", notes |-> SliceFront(failures, 2)]

WarnAmtrakNoBoston ==
    [w |-> "Amtrak feed reachable but no Boston-area alerts matched filters.", notes |-> <<>>]
WarnRouteMeta == [w |-> "MBTA route metadata query failed", notes |-> <<>>]
WarnRouteShape == [w |-> "MBTA route shape query failed", notes |-> <<>>]
WarnSynthetic ==
    [w |-> "Falling back to synthetic transit lines from live vehicle positions.", notes |-> <<>>]

\* fetchMbtaVehicles / fetchMbtaAlerts after the response of the pending tier.
MbtaRespond(b, s, status, n) ==
    LET tier == s.tiers[Len(s.log)]
        s1 == [s EXCEPT !.log = LastAnswered(@, status, n)]
    IN  IF status = "ok"
        THEN Returned(s1, TierRecords(b, tier, n), <<tier>>)
        ELSE NextTier(s1, Note(b, tier, status))

\* fetchAmtrakAlerts after the response of the pending candidate; an "ok" feed
\* parsed to at least one item, n of them Boston-related.
AmtrakRespond(s, status, n) ==
    LET feed == s.tiers[Len(s.log)]
        s1 == [s EXCEPT !.log = LastAnswered(@, status, n)]
    IN  IF status = "ok"
        THEN Returned(s1, TierRecords("amtrak", feed, n), <<feed>>)
        ELSE NextTier(s1, Note("amtrak", feed, status))

\* What a resolver pushes to the shared warnings when it settles.
SettleWarnings(b, s, w) ==
    IF ~s.done THEN w
    ELSE IF b \in MbtaBranches
    THEN (IF s.value = <<>> /\ Len(s.notes) > 0 THEN Append(w, AttemptsWarning(s.notes)) ELSE w)
    ELSE IF s.log[Len(s.log)].status = "ok"
    THEN (IF s.value = <<>> THEN Append(w, WarnAmtrakNoBoston) ELSE w)
    ELSE (IF Len(s.notes) > 0 THEN Append(w, AmtrakUnavailable(s.notes)) ELSE w)

\* --- alerts merge: [...mbtaAlerts, ...amtrak.alerts].sort((a, b) => bt - at)
\* a.updatedAt ? Date.parse(a.updatedAt) : 0
TimeKey(a) == IF a.updatedAt.null THEN 0 ELSE a.updatedAt.ms

RECURSIVE InsertByRecency(_, _)
InsertByRecency(sorted, x) ==
    IF sorted = <<>> THEN <<x>>
    ELSE IF TimeKey(Head(sorted)) >= TimeKey(x)
    THEN <<Head(sorted)>> \o InsertByRecency(Tail(sorted), x)
    ELSE <<x>> \o sorted

RECURSIVE SortByRecency(_)
SortByRecency(s) ==
    IF s = <<>> THEN <<>>
    ELSE InsertByRecency(SortByRecency(SubSeq(s, 1, Len(s) - 1)), s[Len(s)])

\* --- lines
RouteOrder == <<"Blue", "Red">>
RouteIds(vehicles) == {vehicles[i].routeId : i \in 1..Len(vehicles)}
VehiclesOn(vehicles, route) == Cardinality({i \in 1..Len(vehicles) : vehicles[i].routeId = route})

ShapeLines(routes) ==
    LET has(route) == route \in routes
    IN  [i \in 1..Len(SelectSeq(RouteOrder, has)) |->
            [routeId |-> SelectSeq(RouteOrder, has)[i], source |-> "mbta_shape"]]

\* The keys of byRoute in insertion order: the route ids by first appearance.
RECURSIVE RoutesByFirstVehicle(_)
RoutesByFirstVehicle(vehicles) ==
    IF vehicles = <<>> THEN <<>>
    ELSE LET Add(before, route) ==
                 IF Contains(before, route) THEN before ELSE Append(before, route)
         IN  Add(RoutesByFirstVehicle(SubSeq(vehicles, 1, Len(vehicles) - 1)),
                 vehicles[Len(vehicles)].routeId)

\* rows: the vehicles of a route, each standing for its position; the order of
\* the positions along the path (by longitude or latitude) is not modelled.
RowsOfRoute(vehicles, route) ==
    LET on(v) == v.routeId = route
        Ids(rows) == [i \in 1..Len(rows) |-> [vehicle |-> rows[i].id]]
    IN  Ids(SelectSeq(vehicles, on))

\* buildSyntheticLinesFromVehicles: a line per route with at least two vehicles.
buildSyntheticLinesFromVehicles(vehicles) ==
    LET has(route) == VehiclesOn(vehicles, route) >= 2
        Lines(routes) ==
            [i \in 1..Len(routes) |->
                [id |-> <<"synthetic", routes[i]>>, routeId |-> routes[i],
                 path |-> RowsOfRoute(vehicles, routes[i]), source |-> "vehicle_synthetic"]]
    IN  Lines(SelectSeq(RoutesByFirstVehicle(vehicles), has))

\* The tail of fetchMbtaLines: shape lines if any, else the synthetic ones.
LinesResult(vehicles, shapeRoutes) ==
    IF shapeRoutes # {} THEN ShapeLines(shapeRoutes)
    ELSE buildSyntheticLinesFromVehicles(vehicles)

LinesWarnings(vehicles, shapeRoutes, w) ==
    IF shapeRoutes = {} /\ buildSyntheticLinesFromVehicles(vehicles) # <<>>
    THEN Append(w, WarnSynthetic) ELSE w

\* --- payload
TransitPayloadAllOrNothing(vehicles, lines, mbtaAlerts, amtrak, fetchedAt, warnings) ==
    LET ok == vehicles # <<>> /\ mbtaAlerts # <<>> /\ amtrak.value # <<>>
        alerts == IF ok THEN SortByRecency(mbtaAlerts \o amtrak.value) ELSE <<>>
    IN  [vehicles |-> IF ok THEN vehicles ELSE <<>>, lines |-> lines, alerts |-> alerts,
         provenance |-> [datasetId |-> "transitStatus", fetchedAt |-> fetchedAt,
                         recordCount |-> Len(alerts),
                         amtrakSource |-> amtrak.sourceUrl, warnings |-> warnings]]

TransitPayload(vehicles, lines, mbtaAlerts, amtrak, fetchedAt, warnings) ==
    LET alerts == SortByRecency(mbtaAlerts \o amtrak.value)
    IN  [vehicles |-> vehicles, lines |-> lines, alerts |-> alerts,
         provenance |-> [datasetId |-> "transitStatus", fetchedAt |-> fetchedAt,
                         recordCount |-> Len(vehicles) + Len(alerts),
                         amtrakSource |-> amtrak.sourceUrl, warnings |-> warnings]]

IdleTransit(override) == [pc |-> "idle", override |-> override]

\* refreshLocalTransit up to Promise.allSettled: each resolver runs to its
\* first await, so the three first-tier requests are out.
TransitStart ==
    /\ t.pc = "idle"
    /\ t' = [pc |-> "branches", override |-> t.override, fetchedAt |-> now + 1,
             warnings |-> <<>>, lines |-> <<>>, before |-> cache, payload |-> NoPayload]
    /\ br' = [b \in Branches |-> BranchStart(TiersOf(b, t.override))]
    /\ now' = now + 1
    /\ UNCHANGED <<bostonVars, callVars, cache>>

Pending(s) == ~s.done /\ s.log[Len(s.log)].status = "pending"

MbtaTierResponse(b) ==
    /\ t.pc = "branches"
    /\ Pending(br[b])
    /\ \E status \in {"failed", "empty", "ok"}, n \in 0..MaxTierRecords :
        /\ (status = "ok") = (n > 0)
        /\ LET s == MbtaRespond(b, br[b], status, n)
           IN  /\ br' = [br EXCEPT ![b] = s]
               /\ t' = [t EXCEPT !.warnings = SettleWarnings(b, s, @)]
    /\ UNCHANGED <<bostonVars, callVars, cache, now>>

AmtrakFeedResponse ==
    /\ t.pc = "branches"
    /\ Pending(br["amtrak"])
    /\ \E status \in {"http_error", "error", "empty", "ok"}, n \in 0..MaxTierRecords :
        /\ status # "ok" => n = 0
        /\ LET s == AmtrakRespond(br["amtrak"], status, n)
           IN  /\ br' = [br EXCEPT !["amtrak"] = s]
               /\ t' = [t EXCEPT !.warnings = SettleWarnings("amtrak", s, @)]
    /\ UNCHANGED <<bostonVars, callVars, cache, now>>

AllSettled == \A b \in Branches : br[b].done

\* The rest of refreshLocalTransit once the lines are known: merge the alerts,
\* build the payload, write the cache, return.
Finish(tr, lines, warnings) ==
    LET payload == TransitPayload(br["vehicles"].value, lines, br["mbtaAlerts"].value,
                                  br["amtrak"], tr.fetchedAt, warnings)
    IN  /\ t' = [tr EXCEPT !.pc = "assembled", !.lines = lines, !.warnings = warnings,
                           !.payload = payload]
        /\ cache' = setPersistentCache(cache, CACHE_KEY, payload)

\* Promise.allSettled resolves with no vehicles: no line fetch.
JoinNoVehicles ==
    /\ t.pc = "branches"
    /\ AllSettled
    /\ br["vehicles"].value = <<>>
    /\ Finish(t, <<>>, t.warnings)
    /\ UNCHANGED <<bostonVars, callVars, br, now>>

\* Promise.allSettled resolves with vehicles: fetchMbtaLines asks for the
\* route metadata of the one chunk of route ids.
JoinWithVehicles ==
    /\ t.pc = "branches"
    /\ AllSettled
    /\ br["vehicles"].value # <<>>
    /\ t' = [t EXCEPT !.pc = "routes"]
    /\ UNCHANGED <<bostonVars, callVars, br, cache, now>>

\* The route metadata arrives or fails; the shapes request goes out.
RoutesResponse ==
    /\ t.pc = "routes"
    /\ \E ok \in BOOLEAN :
        t' = [t EXCEPT !.pc = "shapes",
                       !.warnings = IF ok THEN @ ELSE Append(@, WarnRouteMeta)]
    /\ UNCHANGED <<bostonVars, callVars, br, cache, now>>

\* The shapes arrive (accepted candidates for some of the routes) or fail.
ShapesResponse ==
    /\ t.pc = "shapes"
    /\ \E ok \in BOOLEAN, shapeRoutes \in SUBSET RouteIds(br["vehicles"].value) :
        /\ ~ok => shapeRoutes = {}
        /\ LET vehicles == br["vehicles"].value
               w1 == IF ok THEN t.warnings ELSE Append(t.warnings, WarnRouteShape)
           IN  Finish(t, LinesResult(vehicles, shapeRoutes),
                      LinesWarnings(vehicles, shapeRoutes, w1))
    /\ UNCHANGED <<bostonVars, callVars, br, now>>

InitTransit ==
    /\ config = PagingOf(LayerConfig)
    /\ f = FetchIdle
    /\ up = ScaledUp
    /\ net = <<>>
    /\ r = NoRefresh
    /\ cache = EmptyCache
    /\ now = 0
    /\ t \in {IdleTransit(override) : override \in BOOLEAN}
    /\ br = NoBranches
    /\ others = NoCalls
    /\ join = NoJoin
    /\ caller = IdleCaller
    /\ fn = NoFunction
    /\ mb = NoBases

NextTransit ==
    \/ TransitStart
    \/ \E b \in MbtaBranches : MbtaTierResponse(b)
    \/ AmtrakFeedResponse
    \/ JoinNoVehicles
    \/ JoinWithVehicles
    \/ RoutesResponse
    \/ ShapesResponse

SpecTransit == InitTransit /\ [][NextTransit]_vars

\* --- a refresh that finds the payload of an earlier refresh in the cache:
\* the earlier one got one record from the first tier of every resolver and
\* the shapes of its route.
EarlierVehicles == TierRecords("vehicles", "filtered", 1)
EarlierTransitPayload ==
    TransitPayload(EarlierVehicles, LinesResult(EarlierVehicles, RouteIds(EarlierVehicles)),
                   TierRecords("mbtaAlerts", "filtered", 1),
                   [value |-> TierRecords("amtrak", AMTRAK_DEFAULT_FEEDS[1], 1),
                    sourceUrl |-> <<AMTRAK_DEFAULT_FEEDS[1]>>],
                   1, <<>>)

InitTransitCached ==
    /\ config = PagingOf(LayerConfig)
    /\ f = FetchIdle
    /\ up = ScaledUp
    /\ net = <<>>
    /\ r = NoRefresh
    /\ cache = setPersistentCache(EmptyCache, CACHE_KEY, EarlierTransitPayload)
    /\ now = 1
    /\ t = IdleTransit(FALSE)
    /\ br = NoBranches
    /\ others = NoCalls
    /\ join = NoJoin
    /\ caller = IdleCaller
    /\ fn = NoFunction
    /\ mb = NoBases

SpecTransitCached == InitTransitCached /\ [][NextTransit]_vars

(* ------------------------------------------------- SpecCaller: read path *)
Null == [null |-> TRUE]

\* persistent-cache: get(key) yields the stored envelope, or null.
getPersistentCache(c, key) == IF c[key] = NoPayload THEN Null ELSE [data |-> c[key]]

getCachedBostonDatasetEnvelope(c, datasetId) == getPersistentCache(c, cacheKey(datasetId))

\* cached?.data ?? null
getCachedBostonDataset(c, datasetId) ==
    LET cached == getPersistentCache(c, cacheKey(datasetId))
    IN  IF cached = Null THEN Null ELSE cached.data

getCachedBostonBundleAllIds(c) ==
    [id \in BostonDatasetIds |-> getCachedBostonDataset(c, id)]

\* One entry per dataset id whose read gave data.
getCachedBostonBundle(c) ==
    LET ids == {id \in BostonDatasetIds : getCachedBostonDataset(c, id) # Null}
    IN  [id \in ids |-> getCachedBostonDataset(c, id)]

getCachedLocalTransit(c) ==
    LET cached == getPersistentCache(c, CACHE_KEY)
    IN  IF cached = Null THEN Null ELSE cached.data

Read(op, id, value) ==
    /\ caller' = [caller EXCEPT !.read = [op |-> op, id |-> id, value |-> value]]
    /\ UNCHANGED <<bostonVars, cache, now, transitVars, others, join, fn, mb>>

\* A caller working with the Boston datasets reads those, at any time, also
\* while a refresh is in flight; one working with the transit status reads that.
ReadDataset(id) ==
    /\ r # NoRefresh
    /\ Read("getCachedBostonDataset", id, getCachedBostonDataset(cache, id))

ReadBundle ==
    /\ r # NoRefresh
    /\ Read("getCachedBostonBundle", "", getCachedBostonBundle(cache))

ReadTransit ==
    /\ t # NoTransit
    /\ Read("getCachedLocalTransit", "", getCachedLocalTransit(cache))

\* The caller works with the Boston datasets or with the transit status.
InitCaller ==
    /\ config = PagingOf(LayerConfig)
    /\ f = FetchIdle
    /\ up = ScaledUp
    /\ net = <<>>
    /\ \/ r = IdleRefresh /\ t = NoTransit
       \/ r = NoRefresh /\ t = IdleTransit(FALSE)
    /\ cache = EmptyCache
    /\ now = MaxRefreshes - 2
    /\ br = NoBranches
    /\ others = NoCalls
    /\ join = NoJoin
    /\ caller = IdleCaller
    /\ fn = NoFunction
    /\ mb = NoBases

NextCaller ==
    \/ \E id \in ConcurrentInputs : RefreshStub(id)
    \/ \E id \in ConcurrentInputs : RefreshStart(id)
    \/ FetchStep
    \/ Assemble
    \/ Propagate
    \/ NextTransit
    \/ \E id \in ConcurrentInputs : ReadDataset(id)
    \/ ReadBundle
    \/ ReadTransit

SpecCaller == InitCaller /\ [][NextCaller]_vars

(* ------------------------- SpecRefreshes: refreshes of either service *)
\* One service per behaviour, as in InitCaller; the Boston refreshes cover
\* every mode, the fire filter included.
NextRefreshes ==
    \/ Next
    \/ NextTransit

SpecRefreshes == InitCaller /\ [][NextRefreshes]_vars

(* ------------------------------------------- SpecLines: fetchMbtaLines *)
\* fetchMbtaLines called on its own with the vehicles of a refresh: up to
\* MaxLineVehicles vehicles on the routes of RouteOrder, in any order.
VehicleLists(n) ==
    UNION {[1..k -> {RouteOrder[i] : i \in 1..Len(RouteOrder)}] : k \in 0..n}

chunkFirstOnly(items, size) ==
    IF items = <<>> THEN <<>> ELSE <<SubSeq(items, 1, Min(size, Len(items)))>>

\* chunk(items, size): consecutive slices of at most size items.
RECURSIVE chunk(_, _)
chunk(items, size) ==
    IF items = <<>> THEN <<>>
    ELSE <<SubSeq(items, 1, Min(size, Len(items)))>>
             \o chunk(SubSeq(items, Min(size, Len(items)) + 1, Len(items)), size)

\* chunkedRouteIds: the distinct route ids by first appearance, chunked.  The
\* call site passes 40; the size is drawn from 1..MaxChunkSize so that a call
\* has one chunk or several.
chunkedRouteIds(vehicles, size) == chunk(RoutesByFirstVehicle(vehicles), size)

\* A decoded path is held as its points, each near (within the Boston radius
\* of isWithinBostonRadius) or far.
isPathBostonRelevant(path) == \E i \in 1..Len(path) : path[i] = "near"

ShapePaths == {<<"near">>, <<"far", "far">>, <<"near", "far">>, <<"far", "far", "near">>}

\* The rows of one shapes response: shapes of the routes asked for, each with
\* a polyline that decodes to one of ShapePaths.
ShapeResponses(routes) ==
    UNION {[1..k -> [routeId : routes, path : ShapePaths]] : k \in 0..MaxShapeRows}

\* The rows as the model keeps them, numbered as the upstream's shape ids.
Numbered(rows, from) ==
    [j \in 1..Len(rows) |-> [id |-> from + j, routeId |-> rows[j].routeId, path |-> rows[j].path]]

\* if (path.length < 2 || !isPathBostonRelevant(path)) continue; the routes of
\* RouteOrder all have a mode by modeFromRouteId.
ShapeAccepted(row) == Len(row.path) >= 2 /\ isPathBostonRelevant(row.path)

ShapeCandidate(row) ==
    [id |-> <<"shape", row.routeId, row.id>>, routeId |-> row.routeId,
     path |-> row.path, source |-> "mbta_shape"]

ReplacesExistingOrTie(candidate, existing) == Len(candidate.path) >= Len(existing.path)

\* if (!existing || candidate.path.length > existing.path.length) set(...)
\* A Map keeps the position of a key that is set again.
ReplacesExisting(candidate, existing) == Len(candidate.path) > Len(existing.path)

KeepBest(best, candidate) ==
    IF \E i \in 1..Len(best) : best[i].routeId = candidate.routeId
    THEN [i \in 1..Len(best) |->
            IF best[i].routeId = candidate.routeId /\ ReplacesExisting(candidate, best[i])
            THEN candidate ELSE best[i]]
    ELSE Append(best, candidate)

RECURSIVE bestByRoute(_, _)
bestByRoute(best, rows) ==
    IF rows = <<>> THEN best
    ELSE bestByRoute(IF ShapeAccepted(Head(rows))
                     THEN KeepBest(best, ShapeCandidate(Head(rows))) ELSE best,
                     Tail(rows))

\* lines.sort((a, b) => a.routeLabel.localeCompare(b.routeLabel)): one line per
\* route, the label of a route of RouteOrder being its id.
SortedByLabel(best) ==
    LET kept(route) == \E i \in 1..Len(best) : best[i].routeId = route
        Of(route) == best[CHOOSE i \in 1..Len(best) : best[i].routeId = route]
        Lines(routes) == [i \in 1..Len(routes) |-> Of(routes[i])]
    IN  Lines(SelectSeq(RouteOrder, kept))

\* The tail of fetchMbtaLines over bestByRoute.
LinesReturned(vehicles, best) ==
    IF best # <<>> THEN SortedByLabel(best) ELSE buildSyntheticLinesFromVehicles(vehicles)

LineRequest(kind, index, ok) == [kind |-> kind, chunk |-> index, ok |-> ok]

InitLines ==
    /\ config = PagingOf(LayerConfig)
    /\ f = FetchIdle
    /\ up = ScaledUp
    /\ net = <<>>
    /\ r = NoRefresh
    /\ cache = EmptyCache
    /\ now = 0
    /\ t = NoTransit
    /\ br = NoBranches
    /\ others = NoCalls
    /\ join = NoJoin
    /\ caller = IdleCaller
    /\ mb = NoBases
    /\ fn \in {[pc |-> "called",
                vehicles |-> [i \in 1..Len(routes) |->
                                [id |-> i, routeId |-> routes[i], from |-> MbtaTiers[1]]],
                warnings |-> <<>>, size |-> size,
                chunks |-> chunkedRouteIds(
                    [i \in 1..Len(routes) |->
                        [id |-> i, routeId |-> routes[i], from |-> MbtaTiers[1]]], size),
                i |-> 1, asked |-> <<>>,
                seen |-> <<>>, best |-> <<>>, shapeRoutes |-> {}, out |-> <<>>] :
                    routes \in VehicleLists(MaxLineVehicles), size \in 1..MaxChunkSize}

\* if (routeIds.length === 0) return []
LinesNoRoutes ==
    /\ fn.pc = "called"
    /\ fn.vehicles = <<>>
    /\ fn' = [fn EXCEPT !.pc = "returned"]
    /\ UNCHANGED <<bostonVars, transitVars, cache, now, others, join, caller, mb>>

\* The route metadata of the awaited chunk arrives or fails; the loop goes on
\* to the next chunk, and after the last one to the shapes of the first.
LinesRoutesResponse ==
    /\ fn.pc = "called"
    /\ fn.vehicles # <<>>
    /\ \E ok \in BOOLEAN :
        fn' = [fn EXCEPT !.pc = IF fn.i < Len(fn.chunks) THEN "called" ELSE "shapes",
                        !.i = IF fn.i < Len(fn.chunks) THEN fn.i + 1 ELSE 1,
                        !.asked = Append(@, LineRequest("routes", fn.i, ok)),
                        !.warnings = IF ok THEN @ ELSE Append(@, WarnRouteMeta)]
    /\ UNCHANGED <<bostonVars, transitVars, cache, now, others, join, caller, mb>>

\* The shapes of the awaited chunk arrive or the request fails; after the last
\* chunk the lines are returned.
LinesShapesResponse ==
    /\ fn.pc = "shapes"
    /\ \E ok \in BOOLEAN,
          rows \in ShapeResponses({fn.chunks[fn.i][j] :
                                      j \in 1..Len(fn.chunks[fn.i])}) :
        /\ ~ok => rows = <<>>
        /\ LET Step(last, seen, best, w) ==
                   [fn EXCEPT !.pc = IF last THEN "returned" ELSE "shapes",
                              !.i = IF last THEN fn.i ELSE fn.i + 1,
                              !.asked = Append(@, LineRequest("shapes", fn.i, ok)),
                              !.seen = seen,
                              !.best = best,
                              !.warnings =
                                  IF last
                                  THEN LinesWarnings(fn.vehicles,
                                           {best[k].routeId : k \in 1..Len(best)}, w)
                                  ELSE w,
                              !.shapeRoutes =
                                  IF last THEN {best[k].routeId : k \in 1..Len(best)} ELSE {},
                              !.out = IF last THEN LinesReturned(fn.vehicles, best) ELSE <<>>]
               Got(numbered) ==
                   Step(fn.i = Len(fn.chunks), fn.seen \o numbered,
                        bestByRoute(fn.best, numbered),
                        IF ok THEN fn.warnings ELSE Append(fn.warnings, WarnRouteShape))
           IN  fn' = Got(Numbered(rows, Len(fn.seen)))
    /\ UNCHANGED <<bostonVars, transitVars, cache, now, others, join, caller, mb>>

NextLines ==
    \/ LinesNoRoutes
    \/ LinesRoutesResponse
    \/ LinesShapesResponse

SpecLines == InitLines /\ [][NextLines]_vars

(* ------------------- SpecLineRequests: the line fetch, alone and in a refresh *)
\* A behaviour is one call of fetchMbtaLines or one refreshLocalTransit (over
\* the payload of an earlier refresh), whose line fetch has the one chunk its
\* few routes make at the size of 40.
InitLineRequests ==
    \/ InitLines
    \/ InitTransitCached

NextLineRequests ==
    \/ NextLines
    \/ NextTransit

SpecLineRequests == InitLineRequests /\ [][NextLineRequests]_vars

(* ------------------------------------ SpecNormalize: one feature normalized *)
NormalizerKeys == {"incident_number", "OBJECTID", "objectid", "street", "latitude", "LONGITUDE"}
NormalizerValues == {Str(<<>>), Str(<<" ", "7", " ">>), Str(<<"x">>), Num(0), NullV}
NormalizerGeometries ==
    {NoGeometry, Polygon, Point(<<>>), Point(<<Num(0), Num(0)>>), Point(<<Num(7), Str(<<"x">>)>>)}

\* Property mappings of up to MaxProperties entries, in any key order.
RECURSIVE Mappings(_)
Mappings(n) ==
    IF n = 0 THEN {<<>>}
    ELSE LET shorter == Mappings(n - 1)
         IN  shorter \cup
             {Append(m, Entry(k, v)) :
                 m \in {x \in shorter : Len(x) = n - 1},
                 k \in NormalizerKeys, v \in NormalizerValues}

DistinctKeys(m) == \A i, j \in 1..Len(m) : m[i].k = m[j].k => i = j

NormalizerInputs ==
    {GeoFeature(g, m) : g \in NormalizerGeometries,
                        m \in {x \in Mappings(MaxProperties) : DistinctKeys(x)}}
    \cup {[geometry |-> g, nullProperties |-> TRUE, properties |-> <<>>] :
            g \in NormalizerGeometries}

InitNormalize ==
    /\ config = PagingOf(LayerConfig)
    /\ f = FetchIdle
    /\ up = ScaledUp
    /\ net = <<>>
    /\ r = NoRefresh
    /\ cache = EmptyCache
    /\ now = 0
    /\ t = NoTransit
    /\ br = NoBranches
    /\ others = NoCalls
    /\ join = NoJoin
    /\ caller = IdleCaller
    /\ mb = NoBases
    /\ fn \in {[pc |-> "called", feature |-> feature, datasetTag |-> tag] :
                  feature \in NormalizerInputs, tag \in {"crime", "fire"}}

Normalize ==
    /\ fn.pc = "called"
    /\ fn' = [pc |-> "returned", feature |-> fn.feature, datasetTag |-> fn.datasetTag,
              out |-> normalizeIncidentFeature(fn.feature, fn.datasetTag)]
    /\ UNCHANGED <<bostonVars, cache, now, transitVars, others, join, caller, mb>>

NextNormalize == Normalize

SpecNormalize == InitNormalize /\ [][NextNormalize]_vars

(* ------------------------------------------ SpecDates: one date extracted *)
\* pickDateString called on its own with the date candidates of
\* normalizeIncidentFeature, on mappings holding epoch numbers, date texts,
\* other texts, blanks and nulls.
DateCandidates ==
    <<"occurred_on_date", "incident_date", "dispatch_date", "fromdate", "open_dt", "date",
      "offense_date">>
DateKeys == {"occurred_on_date", "OCCURRED_ON_DATE", "date"}
DateValues == {Num(0), Num(1700000), Str(<<"2024-01-02">>), Str(<<"x">>), Str(<<>>), NullV}

RECURSIVE DateMappings(_)
DateMappings(n) ==
    IF n = 0 THEN {<<>>}
    ELSE LET shorter == DateMappings(n - 1)
         IN  shorter \cup
             {Append(m, Entry(k, v)) :
                 m \in {x \in shorter : Len(x) = n - 1}, k \in DateKeys, v \in DateValues}

InitDates ==
    /\ config = PagingOf(LayerConfig)
    /\ f = FetchIdle
    /\ up = ScaledUp
    /\ net = <<>>
    /\ r = NoRefresh
    /\ cache = EmptyCache
    /\ now = 0
    /\ t = NoTransit
    /\ br = NoBranches
    /\ others = NoCalls
    /\ join = NoJoin
    /\ caller = IdleCaller
    /\ mb = NoBases
    /\ fn \in {[pc |-> "called", properties |-> m] :
                  m \in {x \in DateMappings(MaxProperties) : DistinctKeys(x)}}

PickDate ==
    /\ fn.pc = "called"
    /\ fn' = [pc |-> "returned", properties |-> fn.properties,
              out |-> pickDateString(fn.properties, DateCandidates)]
    /\ UNCHANGED <<bostonVars, cache, now, transitVars, others, join, caller, mb>>

NextDates == PickDate

SpecDates == InitDates /\ [][NextDates]_vars

(* ------------------------------------- SpecPolyline: one polyline decoded *)
Pow2(n) == 2 ^ n

\* One value of the stream from position index on: 5-bit groups, low group
\* first, until a character whose code minus 63 is below 0x20.  The groups
\* fill disjoint bits (shift < 32 for strings this short), so |= adds.
RECURSIVE ReadValueUnchecked(_, _, _, _)
ReadValueUnchecked(encoded, index, shift, result) ==
    IF index > Len(encoded)
    THEN [complete |-> TRUE, result |-> result, index |-> index + 1]
    ELSE LET byte == encoded[index] - 63
             result2 == result + ((byte + 64) % 32) * Pow2(shift)
         IN  IF byte >= 32 THEN ReadValueUnchecked(encoded, index + 1, shift + 5, result2)
             ELSE [complete |-> TRUE, result |-> result2, index |-> index + 1]

RECURSIVE ReadValue(_, _, _, _)
ReadValue(encoded, index, shift, result) ==
    IF index > Len(encoded)
    THEN [complete |-> FALSE, result |-> result, index |-> index]
    ELSE LET byte == encoded[index] - 63
             result2 == result + ((byte + 64) % 32) * Pow2(shift)
         IN  IF byte >= 32 THEN ReadValue(encoded, index + 1, shift + 5, result2)
             ELSE [complete |-> TRUE, result |-> result2, index |-> index + 1]

\* (result & 1) ? ~(result >> 1) : (result >> 1)
Delta(result) == IF result % 2 = 1 THEN -(result \div 2) - 1 ELSE result \div 2

\* The while loop; a point is <<lon, lat>> in units of 1e-5 degree.
RECURSIVE DecodeFrom(_, _, _, _, _)
DecodeFrom(encoded, index, lat, lon, coordinates) ==
    IF index > Len(encoded) THEN coordinates
    ELSE LET a == ReadValue(encoded, index, 0, 0)
         IN  IF ~a.complete THEN coordinates
             ELSE LET lat2 == lat + Delta(a.result)
                      b == ReadValue(encoded, a.index, 0, 0)
                  IN  IF ~b.complete THEN coordinates
                      ELSE LET lon2 == lon + Delta(b.result)
                           IN  DecodeFrom(encoded, b.index, lat2, lon2,
                                          Append(coordinates, <<lon2, lat2>>))

decodePolyline(encoded) == IF encoded = <<>> THEN <<>> ELSE DecodeFrom(encoded, 1, 0, 0, <<>>)

\* Character codes: '?' '@' 'A' end a value (groups 0, 1, 2), '_' and '`'
\* continue one (groups 0, 1), ' ' lies below the alphabet.
PolylineCodes == {63, 64, 65, 95, 96, 32}

RECURSIVE Strings(_, _)
Strings(codes, n) ==
    IF n = 0 THEN {<<>>}
    ELSE LET shorter == Strings(codes, n - 1)
         IN  shorter \cup {Append(x, c) : x \in {y \in shorter : Len(y) = n - 1}, c \in codes}

InitPolyline ==
    /\ config = PagingOf(LayerConfig)
    /\ f = FetchIdle
    /\ up = ScaledUp
    /\ net = <<>>
    /\ r = NoRefresh
    /\ cache = EmptyCache
    /\ now = 0
    /\ t = NoTransit
    /\ br = NoBranches
    /\ others = NoCalls
    /\ join = NoJoin
    /\ caller = IdleCaller
    /\ mb = NoBases
    /\ fn \in {[pc |-> "called", encoded |-> x] : x \in Strings(PolylineCodes, MaxEncoded)}

Decode ==
    /\ fn.pc = "called"
    /\ fn' = [pc |-> "returned", encoded |-> fn.encoded, out |-> decodePolyline(fn.encoded)]
    /\ UNCHANGED <<bostonVars, cache, now, transitVars, others, join, caller, mb>>

NextPolyline == Decode

SpecPolyline == InitPolyline /\ [][NextPolyline]_vars

(* ------------------------------------------ SpecSort: the alerts merged *)
Stamps == {NoStamp, Stamp(-1), Stamp(0), Stamp(1), Stamp(2)}

\* Alert lists of up to n alerts, told apart by their position in the list.
RECURSIVE AlertLists(_)
AlertLists(n) ==
    IF n = 0 THEN {<<>>}
    ELSE LET shorter == AlertLists(n - 1)
         IN  shorter \cup
             {Append(x, [id |-> n, updatedAt |-> u]) :
                 x \in {y \in shorter : Len(y) = n - 1}, u \in Stamps}

InitSort ==
    /\ config = PagingOf(LayerConfig)
    /\ f = FetchIdle
    /\ up = ScaledUp
    /\ net = <<>>
    /\ r = NoRefresh
    /\ cache = EmptyCache
    /\ now = 0
    /\ t = NoTransit
    /\ br = NoBranches
    /\ others = NoCalls
    /\ join = NoJoin
    /\ caller = IdleCaller
    /\ mb = NoBases
    /\ fn \in UNION {{[pc |-> "called", mbtaAlerts |-> SubSeq(x, 1, k),
                         amtrakAlerts |-> SubSeq(x, k + 1, Len(x))] : k \in 0..Len(x)} :
                       x \in AlertLists(MaxAlerts)}

\* [...mbtaAlerts, ...amtrak.alerts].sort(...)
Sort ==
    /\ fn.pc = "called"
    /\ fn' = [pc |-> "returned", mbtaAlerts |-> fn.mbtaAlerts, amtrakAlerts |-> fn.amtrakAlerts,
              out |-> SortByRecency(fn.mbtaAlerts \o fn.amtrakAlerts)]
    /\ UNCHANGED <<bostonVars, cache, now, transitVars, others, join, caller, mb>>

NextSort == Sort

SpecSort == InitSort /\ [][NextSort]_vars

(* --------------------------------- SpecBases: military bases in view *)
\* Degrees and zoom levels are kept in halves: 21 is 10.5.  Every number the
\* service computes on these inputs (steps 0.5, 1, 2, 4, 5, 8; thresholds
\* 3.5, 5, 6, 7) is a multiple of one half.
Half(x) == 2 * x

\* Math.round(v / step) * step; Math.round is floor(x + 1/2).
quantize(v, step) == ((2 * v + step) \div (2 * step)) * step

getBboxGridStep(zoom) ==
    IF zoom < Half(5) THEN Half(5)
    ELSE IF zoom <= Half(7) THEN Half(1)
    ELSE 1

quantizeBbox(swLat, swLon, neLat, neLon, zoom) ==
    <<quantize(swLat, getBboxGridStep(zoom)), quantize(swLon, getBboxGridStep(zoom)),
      quantize(neLat, getBboxGridStep(zoom)), quantize(neLon, getBboxGridStep(zoom))>>

inBounds(lat, lon, swLat, swLon, neLat, neLon) ==
    /\ lat >= swLat /\ lat <= neLat
    /\ IF swLon <= neLon THEN lon >= swLon /\ lon <= neLon
       ELSE lon >= swLon \/ lon <= neLon

pickClusterStep(zoom) ==
    IF zoom < 7 THEN Half(8)
    ELSE IF zoom < Half(5) THEN Half(4)
    ELSE Half(2)

\* The keys of byType in the order of the object literal.
BaseTypes ==
    <<"us-nato", "china", "russia", "uk", "france", "india", "italy", "uae",
      "turkey", "japan", "other">>

\* buckets after the first loop: per key, in insertion order, the sums, the
\* count and the bases' types.
RECURSIVE Buckets(_, _)
Buckets(bases, step) ==
    IF bases = <<>> THEN <<>>
    ELSE LET Put(buckets, base, key) ==
                 IF \E i \in 1..Len(buckets) : buckets[i].key = key
                 THEN [i \in 1..Len(buckets) |->
                         IF buckets[i].key = key
                         THEN [key |-> key,
                               latSum |-> buckets[i].latSum + base.lat,
                               lonSum |-> buckets[i].lonSum + base.lon,
                               count |-> buckets[i].count + 1,
                               types |-> Append(buckets[i].types, base.type)]
                         ELSE buckets[i]]
                 ELSE Append(buckets, [key |-> key, latSum |-> base.lat,
                                       lonSum |-> base.lon, count |-> 1,
                                       types |-> <<base.type>>])
         IN  Put(Buckets(SubSeq(bases, 1, Len(bases) - 1), step),
                 bases[Len(bases)],
                 <<quantize(bases[Len(bases)].lat, step),
                   quantize(bases[Len(bases)].lon, step)>>)

\* The first type, in the order of byType, with the largest count.
DominantType(types) ==
    LET n(type) == CountOf(types, type)
    IN  BaseTypes[CHOOSE i \in 1..Len(BaseTypes) :
                    /\ \A j \in 1..Len(BaseTypes) : n(BaseTypes[j]) <= n(BaseTypes[i])
                    /\ \A j \in 1..(i - 1) : n(BaseTypes[j]) < n(BaseTypes[i])]

\* A cluster's latitude and longitude are the quotients sum / count, kept as
\* the pair of sum and count.
buildClusters(bases, zoom) ==
    IF bases = <<>> \/ zoom >= Half(6) THEN <<>>
    ELSE LET many(bucket) == bucket.count >= 2
             Clusters(buckets) ==
                 [i \in 1..Len(buckets) |->
                     [id |-> buckets[i].key,
                      latitude |-> <<buckets[i].latSum, buckets[i].count>>,
                      longitude |-> <<buckets[i].lonSum, buckets[i].count>>,
                      count |-> buckets[i].count,
                      dominantType |-> DominantType(buckets[i].types)]]
         IN  Clusters(SelectSeq(Buckets(bases, pickClusterStep(zoom)), many))

\* The configured bases (config, not part of the sources): two near each
\* other, one far away.
MILITARY_BASES ==
    <<[id |-> 1, lat |-> Half(10), lon |-> Half(10), type |-> "us-nato"],
      [id |-> 2, lat |-> Half(11), lon |-> Half(11), type |-> "china"],
      [id |-> 3, lat |-> Half(30), lon |-> Half(30), type |-> "china"]>>

\* `${qBbox}:${floorZoom}:${filters?.type || ''}:...`: the text is one per
\* tuple of its parts.
cacheKeyOf(a) ==
    quantizeBbox(a.swLat, a.swLon, a.neLat, a.neLon, a.zoom)
        \o <<a.zoom \div 2, a.type, "", "">>

\* The callback of Promise.resolve().then: filter, cluster, build the result.
BasesResult(a) ==
    LET keep(base) ==
            /\ inBounds(base.lat, base.lon, a.swLat, a.swLon, a.neLat, a.neLon)
            /\ (a.type = "" \/ base.type = a.type)
        Result(filtered) ==
            [bases |-> filtered,
             clusters |-> buildClusters(filtered, a.zoom),
             totalInView |-> Len(filtered),
             truncated |-> FALSE,
             cacheKey |-> cacheKeyOf(a)]
    IN  Result(SelectSeq(MILITARY_BASES, keep))

\* The arguments the map passes: two south-west corners one degree apart,
\* two zoom levels (4 and 6.5), no filter or the type filter.
BasesArgs ==
    [swLat : {0, Half(1)}, swLon : {0}, neLat : {Half(20)}, neLon : {Half(20)},
     zoom : {Half(4), 13}, type : {"", "china"}]

\* The then callback is pure in its arguments: its results on BasesArgs, as
\* pairs of arguments and result.
BasesResults == {<<a, BasesResult(a)>> : a \in BasesArgs}
ResultOf(a) == (CHOOSE p \in BasesResults : p[1] = a)[2]

NoPending == [pending |-> FALSE]
\* A call of fetchMilitaryBases: its fingerprint, how it was served, and the
\* value its promise resolved with (Null while it waits).
BasesCall(key, how, got) == [key |-> key, how |-> how, got |-> got]

InitBases ==
    /\ config = PagingOf(LayerConfig)
    /\ f = FetchIdle
    /\ up = ScaledUp
    /\ net = <<>>
    /\ r = NoRefresh
    /\ cache = EmptyCache
    /\ now = 0
    /\ t = NoTransit
    /\ br = NoBranches
    /\ others = NoCalls
    /\ join = NoJoin
    /\ caller = IdleCaller
    /\ fn = NoFunction
    /\ mb = [loaded |-> TRUE, lastResult |-> Null, pendingFetch |-> NoPending, calls |-> <<>>]

\* The promise resolved with null: the .catch handler returned a lastResult
\* that was still null.
ResolvedNull == [resolved |-> "null", cacheKey |-> <<>>]

\* fetchMilitaryBases(...) up to its return; the body has no await.
BasesCallMade(a) ==
    /\ mb.loaded
    /\ Len(mb.calls) < MaxCalls
    /\ mb' =
        IF mb.lastResult # Null /\ mb.lastResult.cacheKey = cacheKeyOf(a)
        THEN [mb EXCEPT !.calls = Append(@, BasesCall(cacheKeyOf(a), "cached", mb.lastResult))]
        ELSE IF mb.pendingFetch # NoPending
        THEN [mb EXCEPT !.calls = Append(@, BasesCall(cacheKeyOf(a), "joined", Null))]
        ELSE [mb EXCEPT !.pendingFetch = [pending |-> TRUE, args |-> a, settled |-> FALSE,
                                          failed |-> FALSE, value |-> Null],
                        !.calls = Append(@, BasesCall(cacheKeyOf(a), "started", Null))]
    /\ UNCHANGED <<bostonVars, transitVars, cache, now, others, join, caller, fn>>

\* The microtask of .then runs: lastResult = result, or the callback throws.
BasesThen ==
    /\ mb.loaded
    /\ mb.pendingFetch # NoPending
    /\ ~mb.pendingFetch.settled
    /\ ~mb.pendingFetch.failed
    /\ \E threw \in BOOLEAN :
        mb' = IF threw
              THEN [mb EXCEPT !.pendingFetch.failed = TRUE]
              ELSE [mb EXCEPT !.lastResult = ResultOf(mb.pendingFetch.args),
                              !.pendingFetch.settled = TRUE,
                              !.pendingFetch.value = ResultOf(mb.pendingFetch.args)]
    /\ UNCHANGED <<bostonVars, transitVars, cache, now, others, join, caller, fn>>

\* The microtask of .catch runs after a throw: return lastResult.
BasesCatch ==
    /\ mb.loaded
    /\ mb.pendingFetch # NoPending
    /\ mb.pendingFetch.failed
    /\ ~mb.pendingFetch.settled
    /\ mb' = [mb EXCEPT !.pendingFetch.settled = TRUE,
                        !.pendingFetch.value =
                            IF mb.lastResult = Null THEN ResolvedNull ELSE mb.lastResult]
    /\ UNCHANGED <<bostonVars, transitVars, cache, now, others, join, caller, fn>>

BasesFinallyOnSuccess ==
    /\ mb.loaded
    /\ mb.pendingFetch # NoPending
    /\ mb.pendingFetch.settled
    /\ ~mb.pendingFetch.failed
    /\ LET Resolve(result) ==
               [mb EXCEPT !.pendingFetch = NoPending,
                          !.calls = [i \in 1..Len(mb.calls) |->
                                        IF mb.calls[i].got = Null
                                        THEN [mb.calls[i] EXCEPT !.got = result]
                                        ELSE mb.calls[i]]]
       IN  mb' = Resolve(mb.pendingFetch.value)
    /\ UNCHANGED <<bostonVars, transitVars, cache, now, others, join, caller, fn>>

\* The microtask of .finally runs: pendingFetch = null, and the promise the
\* waiting calls hold resolves with the value of the chain.
BasesFinally ==
    /\ mb.loaded
    /\ mb.pendingFetch # NoPending
    /\ mb.pendingFetch.settled
    /\ LET Resolve(result) ==
               [mb EXCEPT !.pendingFetch = NoPending,
                          !.calls = [i \in 1..Len(mb.calls) |->
                                        IF mb.calls[i].got = Null
                                        THEN [mb.calls[i] EXCEPT !.got = result]
                                        ELSE mb.calls[i]]]
       IN  mb' = Resolve(mb.pendingFetch.value)
    /\ UNCHANGED <<bostonVars, transitVars, cache, now, others, join, caller, fn>>

NextBases ==
    \/ \E a \in BasesArgs : BasesCallMade(a)
    \/ BasesThen
    \/ BasesCatch
    \/ BasesFinally

SpecBases == InitBases /\ [][NextBases]_vars

\* The microtask queue always runs: one callback of the chain is queued at a
\* time.
BasesMicrotask ==
    \/ BasesThen
    \/ BasesCatch
    \/ BasesFinally

SpecBasesLive == SpecBases /\ WF_vars(BasesMicrotask)

(* ----------------------------------------- SpecSmoke: boston-smoke-test *)
\* The script's DATASETS: id, whether a url is configured, required.
SMOKE_DATASETS ==
    <<[id |-> "crimeIncidents", hasUrl |-> TRUE, required |-> TRUE],
      [id |-> "fireIncidents", hasUrl |-> TRUE, required |-> TRUE],
      [id |-> "policeDistricts", hasUrl |-> TRUE, required |-> TRUE],
      [id |-> "fireHydrants", hasUrl |-> FALSE, required |-> FALSE],
      [id |-> "fireDepartments", hasUrl |-> TRUE, required |-> TRUE],
      [id |-> "communityCenters", hasUrl |-> TRUE, required |-> TRUE]>>

\* The result rows of fetchDataset and of the catch block.
SmokeNoUrl(dataset) ==
    [id |-> dataset.id, ok |-> ~dataset.required, count |-> 0, detail |-> "warning"]
SmokeHttpError(dataset) ==
    [id |-> dataset.id, ok |-> FALSE, count |-> 0, detail |-> "error=HTTP status"]
SmokeCounted(dataset, count) ==
    [id |-> dataset.id, ok |-> (count > 0 \/ ~dataset.required), count |-> count,
     detail |-> "count"]
SmokeCaught(dataset) ==
    [id |-> dataset.id, ok |-> FALSE, count |-> 0, detail |-> "error=message"]

SmokeExitAlwaysPass(results) == 0

\* failed.length > 0 ? process.exit(1) : the script ends with status 0
SmokeExit(results) ==
    IF \E k \in 1..Len(results) : ~results[k].ok THEN 1 ELSE 0

\* The loop from dataset s.i on, up to the next await: a dataset without url
\* gets its row at once, a dataset with a url has its request sent; after
\* the last dataset the report is printed and the script exits.
RECURSIVE SmokeAdvance(_)
SmokeAdvance(s) ==
    IF s.i > Len(SMOKE_DATASETS)
    THEN [s EXCEPT !.pc = "exited", !.exit = SmokeExit(s.results)]
    ELSE IF ~SMOKE_DATASETS[s.i].hasUrl
    THEN SmokeAdvance([s EXCEPT !.results = Append(@, SmokeNoUrl(SMOKE_DATASETS[s.i])),
                                !.i = s.i + 1])
    ELSE [s EXCEPT !.pc = "awaiting", !.requests = Append(@, SMOKE_DATASETS[s.i].id)]

SmokePushed(s, row) == SmokeAdvance([s EXCEPT !.results = Append(@, row), !.i = s.i + 1])

InitSmoke ==
    /\ config = PagingOf(LayerConfig)
    /\ f = FetchIdle
    /\ up = ScaledUp
    /\ net = <<>>
    /\ r = NoRefresh
    /\ cache = EmptyCache
    /\ now = 0
    /\ t = NoTransit
    /\ br = NoBranches
    /\ others = NoCalls
    /\ join = NoJoin
    /\ caller = IdleCaller
    /\ mb = NoBases
    /\ fn = SmokeAdvance([pc |-> "loop", i |-> 1, results |-> <<>>, requests |-> <<>>,
                          exit |-> 0])

\* await fetch(...) settles: it rejects, answers with an error status, or
\* answers 2xx and the body is read.
SmokeResponse ==
    /\ fn.pc = "awaiting"
    /\ \E outcome \in {"rejected", "http_error", "ok"} :
        fn' = CASE outcome = "rejected" -> SmokePushed(fn, SmokeCaught(SMOKE_DATASETS[fn.i]))
                [] outcome = "http_error" ->
                       SmokePushed(fn, SmokeHttpError(SMOKE_DATASETS[fn.i]))
                [] OTHER -> [fn EXCEPT !.pc = "json"]
    /\ UNCHANGED <<bostonVars, transitVars, cache, now, others, join, caller, mb>>

\* await response.json() settles: it throws, or gives a payload with count
\* features (0 also for a payload without a features array).
SmokeBody ==
    /\ fn.pc = "json"
    /\ \E readable \in BOOLEAN, count \in 0..MaxSmokeCount :
        /\ ~readable => count = 0
        /\ fn' = IF readable THEN SmokePushed(fn, SmokeCounted(SMOKE_DATASETS[fn.i], count))
                  ELSE SmokePushed(fn, SmokeCaught(SMOKE_DATASETS[fn.i]))
    /\ UNCHANGED <<bostonVars, transitVars, cache, now, others, join, caller, mb>>

NextSmoke ==
    \/ SmokeResponse
    \/ SmokeBody

SpecSmoke == InitSmoke /\ [][NextSmoke]_vars

(* ------------------------------------------------ claims: paginated fetch *)
PageRequestCount == Cardinality({i \in 1..Len(net) : net[i].kind = "page"})
FirstN(n) == [i \in 1..n |-> i]
CeilDiv(a, b) == (a + b - 1) \div b

\* C1: the returned feature count never exceeds maxRecords, and the
\* 'Record fetch bounded at N records' warning is among the returned warnings
\* exactly when the returned count reached maxRecords.
C1_CapAndBoundedWarning ==
    /\ config.hasMaxRecords => Len(f.allFeatures) <= config.maxRecords
    /\ f.pc = "returned" =>
          (Contains(f.warnings, WarnBounded(config.maxRecords))
             <=> (config.hasMaxRecords /\ Len(f.allFeatures) = config.maxRecords))

C1_Witness ==
    /\ f.pc = "returned"
    /\ config.hasMaxRecords
    /\ Len(f.allFeatures) = config.maxRecords
    /\ Contains(f.warnings, WarnBounded(config.maxRecords))
    /\ PageRequestCount >= 2

\* The case of C2: the fetch returned, the upstream holds more features than
\* maxRecords and answered the probe and every page request truthfully.
C2_Case ==
    /\ f.pc = "returned"
    /\ up.honest
    /\ config.hasMaxRecords
    /\ up.total > config.maxRecords

C2_Outcome ==
    /\ f.allFeatures = FirstN(config.maxRecords)
    /\ CountOf(f.warnings, WarnBounded(config.maxRecords)) = 1
    /\ PageRequestCount = CeilDiv(config.maxRecords, config.pageSize)
    /\ net[Len(net)].kind = "page"
    /\ net[Len(net)].offset = (PageRequestCount - 1) * config.pageSize

\* C2 as stated: whenever the upstream holds more features than maxRecords the
\* fetch returns exactly the first maxRecords features, with the 'bounded'
\* warning and no page request after the page that reached the cap.
C2_Original == C2_Case => C2_Outcome

\* C2 as amended: the same, provided the page guard leaves room for the cap
\* to be reached (maxPages * pageSize >= maxRecords).
C2_CapReachedWithinPageGuard ==
    (C2_Case /\ config.maxPages * config.pageSize >= config.maxRecords) => C2_Outcome

C2_Witness ==
    /\ C2_Case
    /\ config.pageSize = 2
    /\ config.maxRecords = 3
    /\ f.allFeatures = <<1, 2, 3>>
    /\ PageRequestCount = 2


(* ------------------------------------------------ claims: dataset refresh *)
InRefresh == r.pc \in {"fetching", "assembled", "failed"}
PageFailed ==
    \E i \in 1..Len(net) :
        net[i].kind = "page" /\ net[i].status \in {"http_error", "transport_error"}

\* C8: once a page request of a refresh has failed, the refresh ends failed:
\* it returns no payload (no partial feature list), performs no cache write,
\* and the dataset's cache entry keeps the value it had when the refresh began.
C8_PageFailureFailsRefresh ==
    (InRefresh /\ PageFailed) =>
        /\ r.pc \in {"fetching", "failed"}
        /\ r.pc = "fetching" => f.pc = "thrown"
        /\ r.payload = NoPayload
        /\ cache = r.before

\* A second page fails after a first one succeeded, over a cached payload.
C8_Witness ==
    /\ r.pc = "failed"
    /\ PageFailed
    /\ PageRequestCount = 2
    /\ r.before[cacheKey(r.datasetId)] # NoPayload
    /\ cache[cacheKey(r.datasetId)] = r.before[cacheKey(r.datasetId)]

IsStub(id) == DATASETS(id).mode = "stub"

\* C9: a refresh of a stub dataset is Assembled at once: no request is issued,
\* the payload has an empty feature collection, recordCount 0 and a non-empty
\* warnings list (the configured warning, else the default one), and the
\* payload is in the dataset's cache entry when the refresh returns.
C9_StubAlwaysAssembled ==
    (InRefresh /\ IsStub(r.datasetId)) =>
        /\ r.pc = "assembled"
        /\ net = <<>>
        /\ r.payload.layer = <<>>
        /\ r.payload.provenance.recordCount = 0
        /\ r.payload.provenance.warnings \in {<<WarnHydrantStub>>, <<WarnDefaultStub>>}
        /\ r.payload.provenance.warnings =
              (IF DATASETS(r.datasetId).warning # NoWarning
               THEN <<DATASETS(r.datasetId).warning>> ELSE <<WarnDefaultStub>>)
        /\ cache[cacheKey(r.datasetId)] = r.payload

\* The stub refresh ran after a paged refresh had filled another entry.
C9_Witness ==
    /\ r.pc = "assembled"
    /\ IsStub(r.datasetId)
    /\ cache[cacheKey(r.datasetId)] = r.payload
    /\ r.before[cacheKey(r.datasetId)] = NoPayload
    /\ \E id \in BostonDatasetIds : ~IsStub(id) /\ cache[cacheKey(id)] # NoPayload

(* ------------------------------------------------ claims: transit resolvers *)
Started == t.pc \in {"branches", "routes", "shapes", "assembled"}
Log(b) == br[b].log
FailureStatuses == {"failed", "empty", "http_error", "error"}
AllTiersFailed(b) ==
    /\ br[b].done
    /\ Len(Log(b)) = Len(br[b].tiers)
    /\ \A i \in 1..Len(Log(b)) : Log(b)[i].status \in FailureStatuses
NotesOfLog(b) == [i \in 1..Len(Log(b)) |-> Note(b, Log(b)[i].tier, Log(b)[i].status)]
NoteOccurrences(w, note) ==
    Cardinality({p \in (1..Len(w)) \X (1..3) :
                   p[2] <= Len(w[p[1]].notes) /\ w[p[1]].notes[p[2]] = note})

\* C3: in every resolver no request follows a tier that yielded a non-empty
\* result; in particular a first tier returning N > 0 records is the only one
\* ever requested.
C3_ShortCircuit ==
    Started =>
        \A b \in Branches : \A i \in 1..Len(Log(b)) :
            Log(b)[i].status = "ok" =>
                /\ i = Len(Log(b))
                /\ br[b].done
                /\ Len(br[b].value) = Log(b)[i].n

C3_Witness ==
    /\ t.pc = "assembled"
    /\ \A b \in Branches :
          Len(Log(b)) = 1 /\ Log(b)[1].status = "ok" /\ Log(b)[1].n = MaxTierRecords

\* C4, as stated: when the filtered query returns zero records and the
\* fallback query k > 0, the resolver returns those k records and the warnings
\* hold exactly one 'returned zero' note, the one of the filtered tier.
C4_Original ==
    Started =>
        \A b \in MbtaBranches :
            (br[b].done /\ Len(Log(b)) = 2
                /\ Log(b)[1].status = "empty" /\ Log(b)[2].status = "ok") =>
                /\ br[b].value = TierRecords(b, "fallback", Log(b)[2].n)
                /\ NoteOccurrences(t.warnings, Note(b, "filtered", "empty")) = 1

\* C5: when all three tiers of an MBTA resolver fail or return nothing, it
\* returns an empty list and the warnings hold one entry joining a note for
\* each of the three attempts, in attempt order.
C5_AllAttemptsNoted ==
    Started =>
        \A b \in MbtaBranches :
            AllTiersFailed(b) =>
                /\ br[b].value = <<>>
                /\ Len(NotesOfLog(b)) = 3
                /\ [i \in 1..3 |-> NotesOfLog(b)[i].tier] = MbtaTiers
                /\ Cardinality({i \in 1..Len(t.warnings) :
                                   t.warnings[i].notes = NotesOfLog(b)}) = 1

C5_Witness ==
    /\ t.pc = "assembled"
    /\ AllTiersFailed("vehicles")
    /\ [i \in 1..3 |-> Log("vehicles")[i].status] = <<"failed", "empty", "failed">>
    /\ \E i \in 1..Len(t.payload.provenance.warnings) :
          t.payload.provenance.warnings[i].notes = NotesOfLog("vehicles")

\* C6, as stated: when every Amtrak candidate fails, no alert is returned and
\* the warnings record the failure of every candidate that was attempted.
C6_Original ==
    Started =>
        (AllTiersFailed("amtrak") =>
            /\ br["amtrak"].value = <<>>
            /\ \A i \in 1..Len(Log("amtrak")) :
                  NoteOccurrences(t.warnings, NotesOfLog("amtrak")[i]) >= 1)

\* C7: a resolver requests its tiers in the fixed priority order, each only
\* after every earlier one was answered and judged failed or empty, so it
\* never has two requests in flight.
C7_TiersInOrderOneInFlight ==
    Started =>
        \A b \in Branches :
            /\ Len(Log(b)) <= Len(TiersOf(b, t.override))
            /\ \A i \in 1..Len(Log(b)) : Log(b)[i].tier = TiersOf(b, t.override)[i]
            /\ \A i \in 1..(Len(Log(b)) - 1) : Log(b)[i].status \in FailureStatuses
            /\ Cardinality({i \in 1..Len(Log(b)) : Log(b)[i].status = "pending"}) <= 1

\* Two resolvers each wait for their last tier, after two failed ones.
C7_Witness ==
    /\ t.pc = "branches"
    /\ t.override
    /\ \A b \in {"vehicles", "amtrak"} :
          Len(Log(b)) = 3 /\ Log(b)[3].status = "pending"
    /\ Log("mbtaAlerts")[1].status = "pending"

\* C11, as stated: after a transit refresh in which every request failed, the
\* cache entry still holds the payload the refresh found there.
C11_Original ==
    (t.pc = "assembled" /\ \A b \in Branches : AllTiersFailed(b)) =>
        cache[CACHE_KEY] = t.before[CACHE_KEY]

SameElements(s1, s2) ==
    /\ Len(s1) = Len(s2)
    /\ \A i \in 1..Len(s1) : CountOf(s1, s1[i]) = CountOf(s2, s1[i])

\* A warning made of attempt notes of resolver b.
WarnsAbout(w, b) ==
    /\ w.notes # <<>>
    /\ \A i \in 1..Len(w.notes) : w.notes[i].branch = b

\* C10: whatever branches fail, the refresh returns a payload in which a
\* failed branch contributes nothing, the others' data is all there, and the
\* warnings hold an entry for each failed branch.
C10_PartialSuccess ==
    t.pc = "assembled" =>
        /\ t.payload # NoPayload
        /\ t.payload.vehicles = br["vehicles"].value
        /\ SameElements(t.payload.alerts, br["mbtaAlerts"].value \o br["amtrak"].value)
        /\ \A b \in Branches :
              AllTiersFailed(b) =>
                  /\ br[b].value = <<>>
                  /\ \E i \in 1..Len(t.payload.provenance.warnings) :
                        WarnsAbout(t.payload.provenance.warnings[i], b)

\* Vehicles and Amtrak failed, the MBTA alerts came through.
C10_Witness ==
    /\ t.pc = "assembled"
    /\ AllTiersFailed("vehicles")
    /\ AllTiersFailed("amtrak")
    /\ Len(br["mbtaAlerts"].value) = MaxTierRecords
    /\ t.payload.vehicles = <<>>
    /\ t.payload.alerts # <<>>
    /\ SameElements(t.payload.alerts, br["mbtaAlerts"].value)

(* ------------------------------------------------ claims: cache and callers *)
Records(payload) ==
    IF "incidents" \in DOMAIN payload THEN payload.incidents ELSE payload.layer

\* A payload as one refresh of that dataset, started at that time, builds it.
CompletePayload(payload, id, at) ==
    /\ payload # NoPayload
    /\ payload.provenance.datasetId = id
    /\ payload.provenance.fetchedAt = at
    /\ payload.provenance.recordCount = Len(Records(payload))

\* C12: a cache entry changes only in the step in which a refresh reaches
\* Assembled, only under that refresh's dataset key, and to exactly the
\* complete payload that refresh returns, however two calls interleave.
C12_WholesaleByAssembled ==
    [][\A k \in DOMAIN cache :
         cache'[k] # cache[k] =>
            /\ r'.pc = "assembled"
            /\ r.pc # "assembled" \/ r.fetchedAt # r'.fetchedAt
            /\ k = <<CACHE_PREFIX, r'.datasetId>>
            /\ cache'[k] = r'.payload
            /\ CompletePayload(r'.payload, r'.datasetId, r'.fetchedAt)
            /\ \A k2 \in DOMAIN cache : k2 # k => cache'[k2] = cache[k2]]_vars

\* Two calls for the same dataset were in flight together; the one started
\* first finished last and its payload replaced the other's.
C12_Witness ==
    /\ r.pc = "assembled"
    /\ Len(others) = 1
    /\ others[1].r.pc = "assembled"
    /\ others[1].r.datasetId = r.datasetId
    /\ others[1].r.fetchedAt > r.fetchedAt
    /\ others[1].r.before[cacheKey(r.datasetId)] = NoPayload
    /\ r.payload # others[1].r.payload
    /\ cache[cacheKey(r.datasetId)] = r.payload

\* C13, as stated: once the caller has abandoned a refresh on timeout, that
\* refresh does not change the cache.
C13_Original ==
    [][(caller.abandoned # 0 /\ r.pc = "fetching" /\ r.fetchedAt = caller.abandoned)
          => cache' = cache]_vars

Delivered(id, payload) ==
    /\ join.pc = "resolved"
    /\ \E i \in 1..Len(join.result) : join.result[i] = <<id, payload>>

\* C14, as stated: when refreshAllBostonDatasets has settled and every refresh
\* it started has finished, each refresh that succeeded has its payload
\* delivered and stored under its own key, and the entry of a failed refresh's
\* dataset and the transit entry are as they were.
C14_Original ==
    (join.pc \in {"resolved", "rejected"}
        /\ \A i \in 1..Len(AllCalls) : AllCalls[i].r.pc \in {"assembled", "failed"}) =>
        /\ \A i \in 1..Len(AllCalls) :
              LET c == AllCalls[i].r
              IN  IF c.pc = "assembled"
                  THEN /\ cache[<<CACHE_PREFIX, c.datasetId>>] = c.payload
                       /\ Delivered(c.datasetId, c.payload)
                  ELSE cache[<<CACHE_PREFIX, c.datasetId>>] = NoPayload
        /\ cache[CACHE_KEY] = NoPayload

JustRead(op) == caller'.read # caller.read /\ caller'.read.op = op

CachedIds == {id \in BostonDatasetIds : cache[<<CACHE_PREFIX, id>>] # NoPayload}

\* C16: a read issues no request, starts nothing and leaves the cache as it
\* is; the bundle has an entry, the cached payload, for exactly the dataset
\* ids that have one.
C16_ReadPathFrame ==
    [][caller'.read # caller.read =>
          /\ net' = net /\ f' = f /\ r' = r /\ t' = t /\ br' = br
          /\ cache' = cache
          /\ JustRead("getCachedBostonBundle") =>
                /\ DOMAIN caller'.read.value = CachedIds
                /\ \A id \in CachedIds :
                      caller'.read.value[id] = cache[<<CACHE_PREFIX, id>>]]_vars

\* The bundle was read while a refresh was in flight: it holds the one dataset
\* cached so far.
C16_Witness ==
    /\ r.pc = "fetching"
    /\ Len(net) >= 1
    /\ caller.read.op = "getCachedBostonBundle"
    /\ DOMAIN caller.read.value = {"fireHydrants"}
    /\ CachedIds = {"fireHydrants"}

(* ------------------------------------------------------ claims: normalizer *)
\* C17: whatever the property mapping (empty and null included) and the tag,
\* the id of the normalized record is a non-empty string.
C17_IdNeverEmpty ==
    fn.pc = "returned" => fn.out.id # <<>> /\ trim(fn.out.id) # <<>>

\* No incident number and no object id: the id is the composite one.
C17_Witness ==
    /\ fn.pc = "returned"
    /\ fn.feature.properties = <<Entry("incident_number", Str(<<>>)), Entry("OBJECTID", NullV)>>
    /\ fn.out.id = <<fn.datasetTag, "-", "Unknown", " ", "location", "-", "no-date", "-", "na">>

LatLonKeys == {"latitude", "lat", "y", "longitude", "lon", "lng", "x"}
HasLatLonProperty(feature) ==
    \E i \in 1..Len(PropertiesOf(feature)) :
        toLowerCase(PropertiesOf(feature)[i].k) \in LatLonKeys
ZeroValue(v) == (IsNum(v) /\ v = Num(0)) \/ (IsStr(v) /\ trim(v.s) = <<"0">>)
SuppliesZero(feature) ==
    \/ \E i \in 1..Len(feature.geometry.coordinates) : ZeroValue(feature.geometry.coordinates[i])
    \/ \E i \in 1..Len(PropertiesOf(feature)) :
          /\ toLowerCase(PropertiesOf(feature)[i].k) \in LatLonKeys
          /\ ZeroValue(PropertiesOf(feature)[i].v)

\* C18, as stated: a feature without point geometry and without any
\* latitude/longitude property normalizes to lat = lon = null, and a zero
\* coordinate appears only where the upstream supplied a zero.
C18_Original ==
    fn.pc = "returned" =>
        /\ (fn.feature.geometry.type # "Point" /\ ~HasLatLonProperty(fn.feature))
              => (fn.out.lat = NullV /\ fn.out.lon = NullV)
        /\ (fn.out.lat = Num(0) \/ fn.out.lon = Num(0)) => SuppliesZero(fn.feature)

(* ------------------------------------------------ claims: geometry, alerts *)
IsPrefix(p, s) == Len(p) <= Len(s) /\ p = SubSeq(s, 1, Len(p))

\* C19: cutting the encoded string anywhere, between pairs, inside a pair or
\* inside a value, decodes to a prefix of what the whole string decodes to.
C19_PrefixSafe ==
    fn.pc = "returned" =>
        \A n \in 0..Len(fn.encoded) :
            IsPrefix(decodePolyline(SubSeq(fn.encoded, 1, n)), fn.out)

\* "`@A?" is lat 33 (two characters), lon 2, then a latitude with no
\* longitude: one point; cut inside the first value it gives none.
C19_Witness ==
    /\ fn.pc = "returned"
    /\ fn.encoded = <<96, 64, 65, 63>>
    /\ fn.out = <<<<1, -17>>>>
    /\ decodePolyline(<<96>>) = <<>>
    /\ decodePolyline(<<96, 64, 65>>) = fn.out

HasStamp(a) == ~a.updatedAt.null

\* C20, as stated: the merged list holds the alerts of both sources, the
\* dated ones by descending time first, every undated one after them.
C20_Original ==
    fn.pc = "returned" =>
        /\ SameElements(fn.out, fn.mbtaAlerts \o fn.amtrakAlerts)
        /\ \A i, j \in 1..Len(fn.out) :
              i < j =>
                /\ (HasStamp(fn.out[i]) /\ HasStamp(fn.out[j]))
                      => fn.out[i].updatedAt.ms >= fn.out[j].updatedAt.ms
                /\ HasStamp(fn.out[j]) => HasStamp(fn.out[i])

(* -------------------------------------------- claims: paging stop conditions *)
IsPageRequest(q) == q.kind = "page"
PageLog == SelectSeq(net, IsPageRequest)
SomePageExceeded == \E i \in 1..Len(net) : net[i].kind = "page" /\ net[i].exceeded

\* C22: the 'Pagination capped at N pages' warning is among the returned
\* warnings exactly when maxPages pages were requested and the last of them
\* met no other stop condition (hasMore was still true at the loop exit).
C22_Original ==
    f.pc = "returned" =>
        (Contains(f.warnings, WarnPageCap(config.maxPages))
            <=> (Len(PageLog) = config.maxPages /\ f.hasMore))

\* C23: the number of page requests never exceeds maxPages, and every fetch
\* whose requests are all answered ends (returns or throws).
C23_BoundedAndTerminates ==
    /\ [](Len(PageLog) <= config.maxPages)
    /\ <>(f.pc \in {"returned", "thrown"})

\* The hard case of C23: no known total, every page empty and flagged.
C23_Witness ==
    /\ f.pc = "returned"
    /\ ~f.count.known
    /\ f.allFeatures = <<>>
    /\ Len(PageLog) = config.maxPages
    /\ config.maxPages >= 2
    /\ \A k \in 1..Len(PageLog) : PageLog[k].exceeded

\* C24: when an earlier page has signalled exceededTransferLimit, a page that
\* arrives short of the page size, reaching neither the record cap nor a
\* known total, leaves hasMore true.
C24_Original ==
    [][(/\ f.pc = "page"
        /\ f.sawExceededTransferLimit
        /\ f'.pc = "loop"
        /\ Len(f'.allFeatures) - Len(f.allFeatures) < config.pageSize
        /\ ~RecordCapReached(config, Len(f'.allFeatures))
        /\ ~KnownTotalReached(f.count, Len(f'.allFeatures)))
       => f'.hasMore]_vars

\* C25: the transfer-limit warning is returned at most once, and exactly when
\* some page response of the fetch carried exceededTransferLimit.
C25_TransferWarningOnce ==
    f.pc = "returned" =>
        /\ CountOf(f.warnings, WarnTransferLimit) <= 1
        /\ Contains(f.warnings, WarnTransferLimit) <=> SomePageExceeded

C25_Witness ==
    /\ f.pc = "returned"
    /\ Cardinality({k \in 1..Len(PageLog) : PageLog[k].exceeded}) >= 2
    /\ CountOf(f.warnings, WarnTransferLimit) = 1

ProbeFailed ==
    /\ net # <<>>
    /\ net[1].kind = "count"
    /\ net[1].status \in {"http_error", "transport_error", "unreadable_body", "no_count"}

\* C26: after a failed count probe the fetch goes on to request pages with an
\* unknown total and the 'Could not retrieve total count' warning; it does not
\* fail because of the probe.
C26_Original ==
    ProbeFailed =>
        /\ ~f.count.known
        /\ Contains(f.warnings, WarnNoCount)
        /\ f.pc = "thrown" => Len(PageLog) > 0

\* The case of C27: the fetch returned from an upstream that answered the
\* probe and every page truthfully and holds fewer features than both caps.
C27_Case ==
    /\ f.pc = "returned"
    /\ up.honest
    /\ config.hasMaxRecords => up.total < config.maxRecords
    /\ up.total < config.maxPages * config.pageSize

\* C27: such a fetch returns exactly the upstream's features in order, and
\* with a known total that is a multiple of the page size the last page
\* request is the one that reached the total.
C27_CompleteNoExtraRequest ==
    C27_Case =>
        /\ f.allFeatures = FirstN(up.total)
        /\ (f.count.known /\ up.total % config.pageSize = 0)
              => Len(PageLog) = Max(1, up.total \div config.pageSize)

C27_Witness ==
    /\ C27_Case
    /\ f.count.known
    /\ config.pageSize = 2
    /\ up.total = 4
    /\ f.allFeatures = <<1, 2, 3, 4>>
    /\ Len(PageLog) = 2

\* C28: the k-th page request has offset (k-1)*pageSize and limit pageSize,
\* every request before the last has been answered successfully, and the
\* fetch waits at "page" exactly while its last request is pending.
C28_StrictlySequential ==
    /\ \A k \in 1..Len(PageLog) :
          /\ PageLog[k].offset = (k - 1) * config.pageSize
          /\ PageLog[k].limit = config.pageSize
          /\ k < Len(PageLog) => PageLog[k].status = "ok"
    /\ f.pc = "page" <=> (PageLog # <<>> /\ PageLog[Len(PageLog)].status = "pending")

C28_Witness ==
    /\ Len(PageLog) = 3
    /\ PageLog[3].status = "pending"
    /\ PageLog[3].offset = 2 * config.pageSize
    /\ config.pageSize = 2


(* ------------------------------------------------- claims: provenance counts *)
CarriedRecords(payload) ==
    IF "vehicles" \in DOMAIN payload THEN Len(payload.vehicles) + Len(payload.alerts)
    ELSE IF "incidents" \in DOMAIN payload THEN Len(payload.incidents)
    ELSE Len(payload.layer)

\* C29: every payload a refresh returned or wrote to the cache has
\* provenance.recordCount equal to the records it carries: the incidents kept
\* by the filter, the layer's features, or vehicles plus alerts.
C29_RecordCountMatches ==
    /\ \A key \in DOMAIN cache :
          cache[key] # NoPayload =>
              cache[key].provenance.recordCount = CarriedRecords(cache[key])
    /\ (r # NoRefresh /\ r.pc = "assembled") =>
          r.payload.provenance.recordCount = CarriedRecords(r.payload)

\* A fire refresh that fetched two features and kept one.
C29_Witness ==
    /\ r # NoRefresh
    /\ r.pc = "assembled"
    /\ r.datasetId = "fireIncidents"
    /\ up.fireEvery = 2
    /\ Len(r.payload.incidents) = 1
    /\ r.payload.provenance.recordCount = 1
    /\ Cardinality({i \in 1..Len(net) : net[i].kind = "page" /\ net[i].status = "ok"}) >= 2


(* ------------------------------------------------- claims: transit lines *)
HasSyntheticLine(lines, route) ==
    \E i \in 1..Len(lines) :
        lines[i].routeId = route /\ lines[i].source = "vehicle_synthetic"

\* C30: the lines fetchMbtaLines returns hold a synthetic line for every route
\* with at least two vehicles and no accepted shape.
C30_Original ==
    fn.pc = "returned" =>
        \A route \in RouteIds(fn.vehicles) :
            (VehiclesOn(fn.vehicles, route) >= 2 /\ route \notin fn.shapeRoutes)
                => HasSyntheticLine(fn.out, route)


(* --------------------------------------------- claims: military bases cache *)
\* C21: the value a call of fetchMilitaryBases resolved with carries the
\* fingerprint of that call's own arguments, and a call joins the pending
\* fetch only when that fetch is for its fingerprint.
C21_Original ==
    mb.loaded =>
        /\ \A i \in 1..Len(mb.calls) :
              mb.calls[i].got # Null => mb.calls[i].got.cacheKey = mb.calls[i].key
        /\ \A i \in 1..Len(mb.calls) :
              (mb.calls[i].how = "joined" /\ mb.calls[i].got = Null)
                  => cacheKeyOf(mb.pendingFetch.args) = mb.calls[i].key


(* ------------------------------------------- claims: shapes and chunks *)
AcceptedRows(route) ==
    {j \in 1..Len(fn.seen) : fn.seen[j].routeId = route /\ ShapeAccepted(fn.seen[j])}

LongestRows(route) ==
    {j \in AcceptedRows(route) :
        \A k \in AcceptedRows(route) : Len(fn.seen[k].path) <= Len(fn.seen[j].path)}

EarliestLongest(route) ==
    LET accepted == AcceptedRows(route)
    IN  CHOOSE j \in accepted :
            \A k \in accepted :
                \/ Len(fn.seen[k].path) < Len(fn.seen[j].path)
                \/ Len(fn.seen[k].path) = Len(fn.seen[j].path) /\ j <= k

\* C31: the lines fetchMbtaLines returns hold at most one line per route id; a
\* route with accepted shape candidates gets the earliest of its candidates
\* with the most points; every shape line has two points or more and a point
\* within the radius; every synthetic line is made of the positions of that
\* route's vehicles.
C31_LongestCandidatePerRoute ==
    fn.pc = "returned" =>
        /\ \A i, j \in 1..Len(fn.out) : fn.out[i].routeId = fn.out[j].routeId => i = j
        /\ \A route \in {RouteOrder[i] : i \in 1..Len(RouteOrder)} :
              AcceptedRows(route) # {} =>
                  LET line == ShapeCandidate(fn.seen[EarliestLongest(route)])
                  IN  \E i \in 1..Len(fn.out) : fn.out[i] = line
        /\ \A i \in 1..Len(fn.out) :
              fn.out[i].source = "mbta_shape" =>
                  /\ Len(fn.out[i].path) >= 2
                  /\ \E k \in 1..Len(fn.out[i].path) : fn.out[i].path[k] = "near"
                  /\ AcceptedRows(fn.out[i].routeId) # {}
        /\ \A i \in 1..Len(fn.out) :
              fn.out[i].source = "vehicle_synthetic" =>
                  /\ fn.seen = <<>> \/ \A j \in 1..Len(fn.seen) : ~ShapeAccepted(fn.seen[j])
                  /\ \A k \in 1..Len(fn.out[i].path) :
                        \E v \in 1..Len(fn.vehicles) :
                            /\ fn.vehicles[v].id = fn.out[i].path[k].vehicle
                            /\ fn.vehicles[v].routeId = fn.out[i].routeId

\* Two routes with a line each: one whose later candidate was longer, one whose
\* two candidates tie.
C31_Witness ==
    /\ fn.pc = "returned"
    /\ Len(fn.out) = 2
    /\ \E a, b \in {RouteOrder[i] : i \in 1..Len(RouteOrder)} :
          /\ Cardinality(AcceptedRows(a)) = 2 /\ Cardinality(LongestRows(a)) = 2
          /\ Cardinality(AcceptedRows(b)) = 2 /\ Cardinality(LongestRows(b)) = 1
          /\ EarliestLongest(b) = Len(fn.seen)

RECURSIVE Flattened(_)
Flattened(chunks) ==
    IF chunks = <<>> THEN <<>> ELSE Head(chunks) \o Flattened(Tail(chunks))

Occurrences(s, x) == Cardinality({i \in 1..Len(s) : s[i] = x})

FailedRequests(asked, kind) ==
    Cardinality({k \in 1..Len(asked) : asked[k].kind = kind /\ ~asked[k].ok})

\* The k-th request of a call with n chunks: the routes of chunks 1..n, then
\* the shapes of chunks 1..n.
InChunkOrder(asked, n) ==
    \A k \in 1..Len(asked) :
        /\ k <= 2 * n
        /\ asked[k].kind = (IF k <= n THEN "routes" ELSE "shapes")
        /\ asked[k].chunk = (IF k <= n THEN k ELSE k - n)

ChunksPartition(ids, chunks, size) ==
    /\ Flattened(chunks) = ids
    /\ \A c \in 1..Len(chunks) : Len(chunks[c]) \in 1..size
    /\ \A i, j \in 1..Len(ids) : ids[i] = ids[j] => i = j

\* C32: the chunks of a line fetch hold every distinct route id once, in order
\* and at most size per chunk; every chunk is asked for its routes and then
\* for its shapes whatever failed before, each failed request leaving one
\* warning; the fetch returns, and a refresh whose route or shape request
\* failed is assembled and cached with that warning.
C32_ChunksAllRequested ==
    /\ fn.pc \in {"called", "shapes", "returned"} =>
          /\ ChunksPartition(RoutesByFirstVehicle(fn.vehicles), fn.chunks, fn.size)
          /\ {RoutesByFirstVehicle(fn.vehicles)[i] :
                  i \in 1..Len(RoutesByFirstVehicle(fn.vehicles))} = RouteIds(fn.vehicles)
          /\ InChunkOrder(fn.asked, Len(fn.chunks))
          /\ fn.pc = "returned" => Len(fn.asked) = 2 * Len(fn.chunks)
          /\ Occurrences(fn.warnings, WarnRouteMeta) = FailedRequests(fn.asked, "routes")
          /\ Occurrences(fn.warnings, WarnRouteShape) = FailedRequests(fn.asked, "shapes")
    /\ t.pc = "assembled" =>
          /\ cache[CACHE_KEY] = t.payload
          /\ t.payload.provenance.warnings = t.warnings
    /\ t.pc \in {"detached", "idle", "branches", "routes", "shapes", "assembled"}

\* A fetch of two chunks whose first chunk failed both times and whose second
\* chunk gave a line.
C32_Witness ==
    /\ fn.pc = "returned"
    /\ Len(fn.chunks) = 2
    /\ ~fn.asked[1].ok /\ ~fn.asked[3].ok /\ fn.asked[4].ok
    /\ Len(fn.out) = 1 /\ fn.out[1].source = "mbta_shape"


(* ------------------------------------------------ claims: field extraction *)
\* The value a candidate has: the non-empty string or the number under the
\* exactly named key, else the one under the key found ignoring case.
HasValue(v) == (IsStr(v) /\ trim(v.s) # <<>>) \/ IsNum(v)
ValueText(v) == IF IsStr(v) THEN trim(v.s) ELSE String(v)

CandidateValue(properties, key) ==
    LET Second(lower) ==
            IF lower # 0 /\ HasValue(properties[lower].v) THEN properties[lower].v ELSE Undefined
        First(direct) ==
            IF HasValue(direct) THEN direct
            ELSE Second(FindKeyIgnoringCase(properties, key))
    IN  First(Get(properties, key))

RECURSIVE EarliestCandidateValue(_, _)
EarliestCandidateValue(properties, candidates) ==
    IF candidates = <<>> THEN <<>>
    ELSE IF HasValue(CandidateValue(properties, Head(candidates)))
    THEN ValueText(CandidateValue(properties, Head(candidates)))
    ELSE EarliestCandidateValue(properties, Tail(candidates))

ObjectIdCandidates == <<"objectid", "OBJECTID", "incident_number", "INCIDENT_NUMBER">>

\* C33: pickString gives the value of the earliest candidate that has one, the
\* exactly named key looked at before a key matching ignoring case, a number
\* under the exactly named key included.
C33_Original ==
    fn.pc = "returned" =>
        pickString(PropertiesOf(fn.feature), ObjectIdCandidates)
            = EarliestCandidateValue(PropertiesOf(fn.feature), ObjectIdCandidates)

HasFiniteProperty(properties, candidates) ==
    /\ pickString(properties, candidates) # <<>>
    /\ IsFiniteNumber(StringToNumber(pickString(properties, candidates)))

LatitudeCandidates == <<"latitude", "lat", "y", "LATITUDE">>
LongitudeCandidates == <<"longitude", "lon", "lng", "x", "LONGITUDE">>

\* C34: a feature whose geometry is null, absent or not a point, and whose
\* properties hold a finite latitude and a finite longitude, is normalized to
\* an incident located at those values.
C34_Original ==
    (/\ fn.pc = "returned"
     /\ fn.feature.geometry.type # "Point"
     /\ HasFiniteProperty(PropertiesOf(fn.feature), LatitudeCandidates)
     /\ HasFiniteProperty(PropertiesOf(fn.feature), LongitudeCandidates))
        => /\ fn.out.lat = StringToNumber(pickString(PropertiesOf(fn.feature), LatitudeCandidates))
           /\ fn.out.lon = StringToNumber(pickString(PropertiesOf(fn.feature), LongitudeCandidates))


(* ------------------------------------------------- claims: incident ids *)
CaseNumberOf(properties) ==
    pickString(properties, <<"incident_number", "INCIDENT_NUMBER", "incidentnum",
                             "INCIDENTNUM", "case_number", "CASE_NUMBER">>)
ObjectIdOf(properties) == pickString(properties, <<"objectid", "OBJECTID">>)

\* The id by the priority of the claim, from the mapping and the tag alone.
IdByPriority(properties, tag) ==
    LET Composite(address, date, typeCode) ==
            <<tag, "-">> \o (IF address = <<>> THEN <<"Unknown", " ", "location">> ELSE address)
                \o <<"-">> \o (IF IsNullish(date) THEN <<"no-date">> ELSE date.s)
                \o <<"-">> \o (IF typeCode = <<>> THEN <<"na">> ELSE typeCode)
    IN  IF CaseNumberOf(properties) # <<>> THEN CaseNumberOf(properties)
        ELSE IF ObjectIdOf(properties) # <<>> THEN ObjectIdOf(properties)
        ELSE Composite(
                 pickString(properties, <<"street", "streetname", "location", "address">>),
                 pickDateString(properties, <<"occurred_on_date", "incident_date",
                     "dispatch_date", "fromdate", "open_dt", "date", "offense_date">>),
                 pickString(properties, <<"offense_code", "OFFENSE_CODE", "incident_type",
                     "INCIDENT_TYPE", "nature_code", "NATURE_CODE">>))

FetchedProperties(k) == PropertiesOf(Feature(k, IsFireLike(k)))
PassesFireTest(k) == isLikelyFireIncident(FetchedProperties(k))

KeptFrom(incidents, k) == \E i \in 1..Len(incidents) : incidents[i].raw = FetchedProperties(k)

FireFilterApplied(features, payload, written) ==
    /\ \A i \in 1..Len(payload.incidents) : isLikelyFireIncident(payload.incidents[i].raw)
    /\ \A j \in 1..Len(features) :
          KeptFrom(payload.incidents, features[j]) <=> PassesFireTest(features[j])
    /\ payload.incidents = <<>> =>
          /\ Contains(payload.provenance.warnings, WarnNoFireMatched)
          /\ written = payload

NothingExcluded(features, payload) ==
    /\ Len(payload.incidents) = Len(features)
    /\ \A j \in 1..Len(features) : payload.incidents[j].raw = FetchedProperties(features[j])

\* C36: when a fetch of an incident dataset is assembled, the fire payload
\* holds exactly the fetched features passing isLikelyFireIncident, the crime
\* payload holds every fetched feature, and a fire payload left with no
\* incident is still written to the cache, with the no-match warning.
C36_FireFilter ==
    [][(r.pc = "fetching" /\ r'.pc = "assembled"
            /\ DATASETS(r.datasetId).mode = "incident") =>
          IF DATASETS(r.datasetId).datasetTag = "fire"
          THEN FireFilterApplied(f.allFeatures, r'.payload, cache'[cacheKey(r.datasetId)])
          ELSE NothingExcluded(f.allFeatures, r'.payload)]_vars

\* A fire refresh that fetched features none of which passes the test.
C36_Witness ==
    /\ r # NoRefresh
    /\ r.pc = "assembled"
    /\ r.datasetId = "fireIncidents"
    /\ \E i \in 1..Len(net) : net[i].kind = "page" /\ net[i].status = "ok"
    /\ up.total > 0
    /\ r.payload.incidents = <<>>
    /\ Contains(r.payload.provenance.warnings, WarnNoFireMatched)
    /\ cache[cacheKey("fireIncidents")] = r.payload


(* ------------------------------------------------ claims: date extraction *)
\* The value of the first candidate that has one: properties[key], else the
\* value under the key found ignoring case.
RECURSIVE FirstDateValue(_, _)
FirstDateValue(properties, candidates) ==
    IF candidates = <<>> THEN Undefined
    ELSE LET Pick(exact, lower) ==
                 IF ~IsNullish(exact) THEN exact
                 ELSE IF lower # 0 /\ ~IsNullish(properties[lower].v) THEN properties[lower].v
                 ELSE FirstDateValue(properties, Tail(candidates))
         IN  Pick(Get(properties, Head(candidates)),
                  FindKeyIgnoringCase(properties, Head(candidates)))

\* n < 10^12, in 32-bit arithmetic.
BelowEpochMillis(n) == n \div 1000000 < 1000000

\* C37: an epoch number below 10^12 is read as seconds: the date extracted is
\* the timestamp of that many seconds, which is the one its value in
\* milliseconds gives.
C37_Original ==
    (/\ fn.pc = "returned"
     /\ IsFiniteNumber(FirstDateValue(fn.properties, DateCandidates))
     /\ BelowEpochMillis(FirstDateValue(fn.properties, DateCandidates).n))
        => fn.out = Str(IsoString(FirstDateValue(fn.properties, DateCandidates).n * 1000))


(* -------------------------------------------------- claims: Amtrak feeds *)
\* C38: when fetchAmtrakAlerts has returned no alert, every candidate feed was
\* requested and answered.
C38_Original ==
    (t.pc # "detached" /\ t.pc # "idle" /\ br["amtrak"].done /\ br["amtrak"].value = <<>>)
        => /\ Len(br["amtrak"].log) = Len(br["amtrak"].tiers)
           /\ \A i \in 1..Len(br["amtrak"].log) : br["amtrak"].log[i].status # "pending"


(* ------------------------------------------ claims: in-flight marker *)
\* A call that finds the fingerprint of lastResult gets lastResult and leaves
\* the in-flight marker alone.
ServedFromLastResult ==
    (mb.loaded /\ mb'.loaded /\ Len(mb'.calls) = Len(mb.calls) + 1
        /\ mb.lastResult # Null
        /\ mb'.calls[Len(mb'.calls)].key = mb.lastResult.cacheKey)
    => /\ mb'.calls[Len(mb'.calls)].how = "cached"
       /\ mb'.calls[Len(mb'.calls)].got = mb.lastResult
       /\ mb'.pendingFetch = mb.pendingFetch
       /\ mb'.lastResult = mb.lastResult

\* C39: a pending fetch is always cleared, whether its computation succeeded
\* or threw; calls wait exactly while a fetch is pending, so every waiting
\* call is resolved, and one call at most started the pending fetch; a call
\* with the fingerprint of lastResult is served from it and starts nothing.
C39_MarkerAlwaysCleared ==
    /\ [](mb.loaded =>
            /\ Cardinality({i \in 1..Len(mb.calls) :
                    mb.calls[i].how = "started" /\ mb.calls[i].got = Null}) <= 1
            /\ (mb.pendingFetch = NoPending) <=>
                    (\A i \in 1..Len(mb.calls) : mb.calls[i].got # Null))
    /\ [][ServedFromLastResult]_vars
    /\ (mb.loaded /\ mb.pendingFetch # NoPending) ~> (mb.loaded /\ mb.pendingFetch = NoPending)

\* A computation threw with nothing cached, a second call had joined it, and
\* both were resolved with null; a later call was served from lastResult.
C39_Witness ==
    /\ mb.loaded
    /\ mb.pendingFetch = NoPending
    /\ Len(mb.calls) = MaxCalls
    /\ mb.calls[1].how = "started" /\ mb.calls[1].got = ResolvedNull
    /\ mb.calls[2].how = "joined" /\ mb.calls[2].got = ResolvedNull
    /\ mb.calls[3].how = "started" /\ mb.calls[3].got = mb.lastResult


(* ---------------------------------------------------- claims: smoke test *)
\* C40: the rows of the smoke test are those of the configured datasets in
\* order, one each once the script has exited; requests go to the datasets
\* with a url, in order and once each, never to the stub, whose row is ok;
\* the exit status is 1 exactly when some row is not ok.
C40_EveryDatasetOnce ==
    fn.pc \in {"awaiting", "json", "exited"} =>
        /\ Len(fn.results) <= Len(SMOKE_DATASETS)
        /\ \A k \in 1..Len(fn.results) : fn.results[k].id = SMOKE_DATASETS[k].id
        /\ \A k \in 1..Len(fn.results) :
              ~SMOKE_DATASETS[k].hasUrl => fn.results[k].ok
        /\ fn.requests =
              SelectSeq([k \in 1..Len(SMOKE_DATASETS) |-> SMOKE_DATASETS[k].id],
                        LAMBDA id : \E k \in 1..Min(fn.i, Len(SMOKE_DATASETS)) :
                                        SMOKE_DATASETS[k].id = id /\ SMOKE_DATASETS[k].hasUrl)
        /\ fn.pc = "exited" =>
              /\ Len(fn.results) = Len(SMOKE_DATASETS)
              /\ (fn.exit = 1) <=> (\E k \in 1..Len(fn.results) : ~fn.results[k].ok)
              /\ fn.exit \in {0, 1}

\* The first check threw, a later one got an HTTP error, the last one passed:
\* every dataset has its row and the status is 1.
C40_Witness ==
    /\ fn.pc = "exited"
    /\ fn.exit = 1
    /\ fn.results[1] = SmokeCaught(SMOKE_DATASETS[1])
    /\ fn.results[3] = SmokeHttpError(SMOKE_DATASETS[3])
    /\ fn.results[4].ok
    /\ fn.results[6] = SmokeCounted(SMOKE_DATASETS[6], 1)
    /\ Len(fn.requests) = 5

====
